---- MODULE Spec2Model ----
(***************************************************************************)
(* hyprAgent: the conversation orchestrator (Agent.ProcessMessage), the    *)
(* Security Gate (Config.IsPathAllowed), the file tools, the line parser   *)
(* (NativeBackend.Parse / IR.String), the patch tools (make_patch,         *)
(* apply_patch), rollback and the detection of the installation variant,   *)
(* and the terminal UI (Model.Update).                                     *)
(*                                                                         *)
(* Nine specifications share the module:                                   *)
(*   Spec        the orchestrator's turn loop with concurrent tool calls   *)
(*   SpecSession sessions of several messages under a max_turns setting    *)
(*   SpecUI      the terminal UI that runs the calls and reads the updates *)
(*   SpecGate    the Security Gate and the read_file / list_dir tools      *)
(*   SpecParse   Parse followed by IR.String                               *)
(*   SpecPatch   make_patch, apply_patch and rollback on one target file   *)
(*   SpecDetect  the backends' Detect at start-up and in the tool          *)
(*   SpecChat    the retry loop of OpenAIProvider.Chat                     *)
(*   SpecTurn    two apply_patch calls of one turn and the snapshots       *)
(* Strings of the program are sequences of one-character strings.          *)
(***************************************************************************)
EXTENDS Integers, Sequences, FiniteSets, TLC

VARIABLES
    \* ---- Agent (src/unnamed/part_004) ----
    adapter,     \* which LLMProvider the Agent was constructed with
    shape,       \* the tool calls the model answers with in this session
    history,     \* Agent.history
    pc,          \* ProcessMessage: "new", "chat", "fanout", "returned"
    turn,        \* the loop variable i of ProcessMessage
    results,     \* the results slice of the current turn
    running,     \* indices of the goroutines that have not finished
    ctx,         \* ctx.Err(): "live", "deadline", "cancelled"
    ret,         \* the last return value of ProcessMessage
    chatCalls,   \* provider.Chat calls made by ProcessMessage
    outOfOrder,  \* some goroutine of the turn finished before an earlier one
    cancelledInFlight, \* ctx was done while goroutines were running
    inputs,      \* the messages the user sends in the session
    agentMaxTurns, \* cfg.Agent.MaxTurns, the max_turns setting
    updates,     \* len(a.updates): the status updates in the channel
    dropped,     \* sendUpdate has dropped an update
    \* ---- Security Gate and file tools (config.go, gemini.go) ----
    cfg,         \* the loaded Config: "default" or "custom"
    backendType, \* Type() of the active backend
    argPath,     \* the path argument of the tool call
    toolPc,      \* "ready", "done"
    toolRet,     \* (output, err) of the tool's Execute
    gate,        \* what IsPathAllowed returned to the tool
    fsLog,       \* the paths handed to os.ReadFile / os.ReadDir
    \* ---- Parser (src/unnamed/part_001, part_002) ----
    fileText,    \* content of the configuration file
    ir,          \* IR.Lines returned by Parse
    irText,      \* what IR.String returned
    parsePc,     \* "start", "parsed", "serialized"
    \* ---- Patch tools (gemini.go, src/unnamed/part_001) ----
    original,    \* MakePatchArgs.Original
    modified,    \* MakePatchArgs.Modified
    made,        \* (output, err) of MakePatchTool.Execute
    file,        \* content of the main configuration file on disk
    snapshot,    \* ApplyPatchTool.Snapshot: "nil" or "set"
    configPath,  \* NativeBackend.ConfigPath
    snapshots,   \* the file contents CreateSnapshot has saved
    ap,          \* the apply_patch call in progress
    calls,       \* the patch applications that have returned
    rolled,      \* the rollback and restore calls that have returned
    \* ---- Backend detection (main.go, hyde.go, part_001, part_003) ----
    layout,      \* what os.UserHomeDir, os.Getenv and os.Stat answer
    confPaths,   \* ConfigPath of the three backends
    active,      \* main's activeBackend and detectedType
    detected,    \* the output of detect_installation_root
    detectPc,    \* "boot", "ready", "detected"
    \* ---- Terminal UI (src/internal/ui/model.go) ----
    uiState,     \* Model.state: "Ready", "Thinking"
    listeners,   \* listenForUpdates commands waiting on the channel
    overlapped,  \* a ProcessMessage call was started while one was running
    \* ---- OpenAI adapter (src/internal/assistant/openai.go) ----
    oa,          \* the Chat call: its loop, its context and its attempts
    \* ---- Tool calls of one turn (gemini.go, snapshot.go) ----
    clock,       \* time.Now(), in seconds
    disk,        \* content of the files under the configuration root
    backups,     \* the directories under SnapshotService.BackupDir
    co           \* the apply_patch calls of the turn

agentVars == <<adapter, shape, history, pc, turn, results, running, ctx, ret,
               chatCalls, outOfOrder, cancelledInFlight, inputs,
               agentMaxTurns, updates, dropped>>

gateVars == <<cfg, backendType, argPath, toolPc, toolRet, gate, fsLog>>

parseVars == <<fileText, ir, irText, parsePc>>

patchVars == <<original, modified, made, file, snapshot, configPath, snapshots,
               ap, calls, rolled>>

detectVars == <<layout, confPaths, active, detected, detectPc>>

uiVars == <<uiState, listeners, overlapped>>

chatVars == <<oa>>

turnVars == <<clock, disk, backups, co>>

vars == <<agentVars, gateVars, parseVars, patchVars, detectVars, uiVars, chatVars, turnVars>>

-----------------------------------------------------------------------------
\* Bounds of the model
MaxCalls == 2
MaxSegs  == 3
MaxText  == 3
MaxLen   == 2
MaxMessages == 2
MaxTurnsInFile == 3

\* const maxTurns = 25
maxTurns == 25

\* updates: make(chan StatusUpdate, 10)
UpdatesCapacity == 10

\* DefaultConfig: Agent.MaxTurns
DefaultMaxTurns == 25

\* The max_turns settings: the default, and the value of a config file
MaxTurnsSettings == { DefaultMaxTurns, MaxTurnsInFile }

\* A loop test that admits one iteration more
LoopContinuesOffByOne(i) == i <= maxTurns

\* The test of for i := 0; i < maxTurns; i++
LoopContinues(i) == i < maxTurns

\* A slot of the results slice that no goroutine has written yet
Null == [role |-> "none"]

-----------------------------------------------------------------------------
\* Roles (llm.go)
RoleSystem    == "system"
RoleUser      == "user"
RoleAssistant == "assistant"
RoleTool      == "tool"

\* Agent.system, a non-empty system prompt built by main
SystemPrompt == "system prompt"

Message(role, content, name, toolCalls, toolCallID) ==
    [role |-> role, content |-> content, name |-> name,
     toolCalls |-> toolCalls, toolCallID |-> toolCallID]

\* The names under which main registers tools; the stub tools of this
\* specification are read_file (whose outcome depends on its argument) and
\* make_patch.
RegisteredTools == {"detect_installation_root", "list_dir", "read_file",
                    "parse_config", "make_patch", "apply_patch", "rollback"}

\* A registry that has a tool for every name
RegistryGetAny(name) == TRUE

\* ToolRegistry.Get
RegistryGet(name) == name \in RegisteredTools

\* The function calls a model can ask for: a registered tool that succeeds,
\* a registered tool that returns an error, a name that is not registered.
WireCalls == { [name |-> "read_file", args |-> "hyprland.conf"],
               [name |-> "read_file", args |-> "/etc/passwd"],
               [name |-> "write_file", args |-> "x"] }

\* Tool.Execute of the stub tools: (output, err)
ToolExecute(name, args) ==
    IF name = "read_file" /\ args = "/etc/passwd"
    THEN [output |-> "", err |-> "access denied"]
    ELSE [output |-> "content of " \o args, err |-> "nil"]

RECURSIVE SeqsUpTo(_, _)
SeqsUpTo(S, n) ==
    IF n = 0 THEN { <<>> }
    ELSE LET shorter == SeqsUpTo(S, n - 1)
         IN  shorter \cup { Append(s, x) : s \in { t \in shorter : Len(t) = n - 1 }, x \in S }

\* The batches of function calls the transport can deliver in one response
Shapes == SeqsUpTo(WireCalls, MaxCalls) \ { <<>> }

Adapters == {"openai", "anthropic", "gemini"}

\* The ids the OpenAI and Anthropic transports give the calls of one response
WireID(k) == "call_" \o ToString(k)

\* The ToolCall list each adapter builds from the transport's response:
\* OpenAIProvider.Chat and AnthropicProvider.Chat copy the transport's id,
\* GeminiProvider.parseResponse sets ID to "".
ParseToolCalls(a, wire) ==
    [k \in 1..Len(wire) |->
        [id   |-> IF a = "gemini" THEN "" ELSE WireID(k),
         name |-> wire[k].name,
         args |-> wire[k].args]]

\* GeminiProvider.Chat sends only when the last replayed message has role
\* "user"; tool messages are replayed with role "function".
GeminiLastIsUser(h) ==
    LET replayed == SelectSeq(h, LAMBDA m : m.role # RoleSystem)
    IN  /\ Len(replayed) > 0
        /\ replayed[Len(replayed)].role \notin {RoleAssistant, RoleTool}

\* Whether the adapter reaches its transport with this history
AdapterSends(a, h) == a # "gemini" \/ GeminiLastIsUser(h)

\* First slot of res that is still empty (completion order)
ResultSlotByCompletion(i, res) ==
    CHOOSE k \in 1..Len(res) : res[k] = Null /\ \A j \in 1..(k - 1) : res[j] # Null

\* results[i] = ...: the slot a goroutine writes
ResultSlot(i, res) == i

\* A tool-role message that carries the tool's output and drops its error
ToolResultWithoutError(tc) ==
    [role |-> RoleTool, content |-> ToolExecute(tc.name, tc.args).output,
     name |-> tc.name, toolCalls |-> <<>>, toolCallID |-> tc.id]

\* The tool-role message the goroutine of call tc produces
ToolResult(tc) ==
    IF ~RegistryGet(tc.name)
    THEN Message(RoleTool, "Error: Tool " \o tc.name \o " not found", tc.name, <<>>, tc.id)
    ELSE LET r == ToolExecute(tc.name, tc.args)
         IN  Message(RoleTool,
                     IF r.err # "nil" THEN "Error: " \o r.err ELSE r.output,
                     tc.name, <<>>, tc.id)

LoopLimitText == "Error: Agent loop limit reached without final response. I got stuck trying to solve this."

\* An error return that does not look at ctx
ChatErrorUnclassified(c) == "provider error"

\* The error ProcessMessage returns when provider.Chat failed: by ctx.Err()
ChatError(c) ==
    CASE c = "deadline"  -> "timeout"
      [] c = "cancelled" -> "cancelled"
      [] OTHER           -> "provider error"

\* A wait that returns while goroutines are running
WaitReturnsEarly(r) == TRUE

\* wg.Wait() returns when every goroutine has called wg.Done()
WaitReturns(r) == r = {}

\* The user messages of h
UserMessages(h) == Len(SelectSeq(h, LAMBDA msg : msg.role = RoleUser))

\* A channel that takes every update
SendUpdateUnbounded(n, k) == n + k

\* k calls of sendUpdate on a channel that holds n updates: the select sends
\* when there is room and drops the update otherwise
SendUpdate(n, k) == IF n + k <= UpdatesCapacity THEN n + k ELSE UpdatesCapacity

\* k calls of sendUpdate
Sends(k) ==
    /\ updates' = SendUpdate(updates, k)
    /\ dropped' = (dropped \/ updates + k > UpdatesCapacity)

\* The tools whose call is announced before it runs
AnnouncedTools == { "detect_installation_root", "list_dir", "read_file",
                    "parse_config", "make_patch", "apply_patch" }

\* The sendUpdate calls of the goroutine of tool call tc
ToolUpdates(tc) ==
    (IF tc.name \in AnnouncedTools THEN 1 ELSE 0)
        + (IF RegistryGet(tc.name) THEN 1 ELSE 0)

\* A test that adds the system prompt on every call
SystemPromptAlways(h) == SystemPrompt # ""

\* if len(a.history) == 0 && a.system != ""
SystemPromptDue(h) == Len(h) = 0 /\ SystemPrompt # ""

\* A failed call that leaves a response in the history
HistoryWithFailedTurn(h) ==
    Append(h, [role |-> RoleAssistant, content |-> "", name |-> "",
               toolCalls |-> <<>>, toolCallID |-> ""])

\* a.history after provider.Chat returned an error: the return comes before
\* the append of the response
HistoryAfterChatError(h) == h

\* A return that loses the response's text
ReturnsNoContent(resp) == [text |-> "", err |-> "nil"]

\* return resp.Content, nil
ReturnsContent(resp) == [text |-> resp.content, err |-> "nil"]


-----------------------------------------------------------------------------
\* Strings.  A string is a sequence of atoms; an atom stands for a run of
\* characters without a separator ("hypr", "land", ".conf", ...), and names
\* of which one is a character prefix of another share their leading atoms:
\* "hyprland.conf" is <<"hypr", "land", ".conf">>, "hypr2" is <<"hypr", "2">>.
Sep    == "/"
DotSeg == <<".">>
DotDot == <<".", ".">>

\* strings.HasPrefix, which filepath.HasPrefix is
HasPrefix(s, prefix) ==
    Len(prefix) <= Len(s) /\ SubSeq(s, 1, Len(prefix)) = prefix

\* filepath.IsAbs
IsAbs(p) == Len(p) > 0 /\ p[1] = Sep

\* The elements of p between separators (empty elements included)
RECURSIVE SplitSep(_)
SplitSep(p) ==
    IF \A i \in 1..Len(p) : p[i] # Sep THEN << p >>
    ELSE LET i == CHOOSE k \in 1..Len(p) : p[k] = Sep /\ \A j \in 1..(k - 1) : p[j] # Sep
         IN  << SubSeq(p, 1, i - 1) >> \o SplitSep(SubSeq(p, i + 1, Len(p)))

\* The elements joined by separators
RECURSIVE JoinSep(_)
JoinSep(elems) ==
    IF elems = <<>> THEN <<>>
    ELSE IF Len(elems) = 1 THEN elems[1]
    ELSE elems[1] \o << Sep >> \o JoinSep(Tail(elems))

\* The element loop of filepath.Clean: empty and "." elements are dropped,
\* ".." removes the element before it, is dropped at the root of a rooted
\* path and is kept at the start of a relative one.
RECURSIVE CleanElems(_, _, _)
CleanElems(elems, rooted, out) ==
    IF elems = <<>> THEN out
    ELSE LET e    == Head(elems)
             rest == Tail(elems)
         IN  IF e = <<>> \/ e = DotSeg THEN CleanElems(rest, rooted, out)
             ELSE IF e = DotDot
             THEN IF Len(out) > 0 /\ out[Len(out)] # DotDot
                  THEN CleanElems(rest, rooted, SubSeq(out, 1, Len(out) - 1))
                  ELSE IF rooted THEN CleanElems(rest, rooted, out)
                  ELSE CleanElems(rest, rooted, Append(out, DotDot))
             ELSE CleanElems(rest, rooted, Append(out, e))

\* filepath.Clean
CleanOut(rooted, elems) ==
    IF rooted THEN << Sep >> \o JoinSep(elems)
    ELSE IF elems = <<>> THEN DotSeg
    ELSE JoinSep(elems)

Clean(p) ==
    IF p = <<>> THEN DotSeg
    ELSE CleanOut(IsAbs(p), CleanElems(SplitSep(p), IsAbs(p), <<>>))

\* filepath.Join of two elements: empty elements are ignored, the rest is
\* joined by a separator and cleaned
Join2(a, b) ==
    IF a = <<>> /\ b = <<>> THEN <<>>
    ELSE Clean(IF b = <<>> THEN a
               ELSE IF a = <<>> THEN b
               ELSE a \o << Sep >> \o b)

\* The elements of a cleaned rooted path
ElemsOf(p) == CleanElems(SplitSep(p), TRUE, <<>>)

\* Number of leading elements two element lists share
RECURSIVE CommonElems(_, _)
CommonElems(a, b) ==
    IF a = <<>> \/ b = <<>> \/ Head(a) # Head(b) THEN 0
    ELSE 1 + CommonElems(Tail(a), Tail(b))

\* filepath.Rel for two rooted paths: ".." for every element of base after
\* the shared ones, then the rest of targ; "." when they are the same.
RelOut(r) == IF r = <<>> THEN DotSeg ELSE JoinSep(r)

RelFrom(b, t, c) ==
    RelOut([k \in 1..(Len(b) - c) |-> DotDot] \o SubSeq(t, c + 1, Len(t)))

RelElems(b, t) == RelFrom(b, t, CommonElems(b, t))

Rel(base, targ) == RelElems(ElemsOf(Clean(base)), ElemsOf(Clean(targ)))

\* The last element, or the separator when there is none
LastElem(elems) == IF elems = <<>> THEN << Sep >> ELSE elems[Len(elems)]

\* filepath.Base
Base(p) ==
    IF p = <<>> THEN DotSeg
    ELSE LastElem(SelectSeq(SplitSep(p), LAMBDA e : e # <<>>))

\* os.UserHomeDir()
Home == << Sep, "u" >>

\* configRoot := filepath.Join(home, ".config", "hypr")
ConfigRoot == Join2(Join2(Home, << "cfg" >>), << "hypr" >>)

Conf(name) == name \o << ".conf" >>
Under(dir) == << ".", Sep >> \o dir

\* Config.Security of DefaultConfig()
DefaultSecurity ==
    [native |->
        [AllowedDirs  |-> << DotSeg, Under(<<"scripts">>), Under(<<"themes">>) >>,
         AllowedFiles |-> << Conf(<<"hypr", "land">>), Conf(<<"hypr", "paper">>),
                             Conf(<<"hypr", "idle">>), Conf(<<"hypr", "lock">>),
                             Conf(<<"keybindings">>), Conf(<<"windowrules">>),
                             Conf(<<"monitors">>), Conf(<<"workspaces">>),
                             Conf(<<"animations">>), Conf(<<"userprefs">>) >>],
     hyde |->
        [AllowedDirs  |-> << DotSeg, Under(<<"Configs">>), Under(<<"scripts">>),
                             Under(<<"themes">>), Under(<<"animations">>),
                             Under(<<"shaders">>), Under(<<"hypr", "lock">>),
                             Under(<<"workflows">>) >>,
         AllowedFiles |-> << Conf(<<"hypr", "land">>), Conf(<<"hyde">>),
                             Conf(<<"hypr", "idle">>), Conf(<<"hypr", "lock">>),
                             Conf(<<"keybindings">>), Conf(<<"windowrules">>),
                             Conf(<<"monitors">>), Conf(<<"workspaces">>),
                             Conf(<<"workflows">>), Conf(<<"animations">>),
                             Conf(<<"shaders">>), Conf(<<"userprefs">>),
                             << "pyprland.toml" >> >>],
     omarchy |->
        [AllowedDirs  |-> << DotSeg, Under(<<"omarchy">>), Under(<<"scripts">>),
                             Under(<<"themes">>) >>,
         AllowedFiles |-> << Conf(<<"hypr", "land">>), Conf(<<"keybindings">>),
                             Conf(<<"windowrules">>), Conf(<<"monitors">>),
                             Conf(<<"workspaces">>) >>]]

\* A config.toml that narrows every variant to the scripts directory and
\* the main configuration file (LoadConfig decodes it over the defaults)
CustomSecurity ==
    [v \in {"native", "hyde", "omarchy"} |->
        [AllowedDirs  |-> << Under(<<"scripts">>) >>,
         AllowedFiles |-> << Conf(<<"hypr", "land">>) >>]]

\* c.Security of the loaded configuration
Security(c) == IF c = "default" THEN DefaultSecurity ELSE CustomSecurity

SourceNative  == "native"
SourceHyDE    == "hyde"
SourceOmarchy == "omarchy"
BackendTypes  == {SourceNative, SourceHyDE, SourceOmarchy}

\* The test of IsPathAllowed that the target is within the config root
WithinRootTest(absTarget, configRoot) == HasPrefix(absTarget, configRoot)

\* A directory test without the nested paths
InAllowedDirItself(absTarget, allowedDirAbs) == absTarget = allowedDirAbs

\* Config.IsPathAllowed: (allowed, err)
\* The test of the allowed-directories loop for one directory
InAllowedDir(absTarget, allowedDirAbs) ==
    \/ absTarget = allowedDirAbs
    \/ HasPrefix(absTarget, allowedDirAbs \o << Sep >>)

\* The test of the allowed-files loop for one file
IsAllowedFile(relPath, base, allowedFile) ==
    relPath = allowedFile \/ base = allowedFile

\* Config.IsPathAllowed from the root test on, for the security lists sec,
\* the config root and the resolved absolute target: (allowed, err)
IsAbsTargetAllowed(sec, configRoot, absTarget) ==
    IF ~WithinRootTest(absTarget, configRoot)
    THEN [allowed |-> FALSE, err |-> "outside Hyprland config directory"]
    ELSE IF \E i \in 1..Len(sec.AllowedFiles) :
               IsAllowedFile(Rel(configRoot, absTarget), Base(absTarget), sec.AllowedFiles[i])
    THEN [allowed |-> TRUE, err |-> "nil"]
    ELSE IF \E i \in 1..Len(sec.AllowedDirs) :
               InAllowedDir(absTarget, Clean(Join2(configRoot, sec.AllowedDirs[i])))
    THEN [allowed |-> TRUE, err |-> "nil"]
    ELSE [allowed |-> FALSE, err |-> "not in the allowed list"]

\* absTarget: the target path resolved against the config root
AbsTarget(configRoot, targetPath) ==
    Clean(IF IsAbs(targetPath) THEN targetPath ELSE Join2(configRoot, targetPath))

\* Config.IsPathAllowed: (allowed, err)
IsPathAllowed(c, bt, targetPath) ==
    IsAbsTargetAllowed(Security(c)[bt], ConfigRoot, AbsTarget(ConfigRoot, targetPath))

\* The element names target paths are built from
SegNames == { DotSeg, DotDot, << "hypr" >>, << "hypr", "2" >>,
              Conf(<<"hypr", "land">>), << "scripts" >>, << "etc" >> }

\* Where a path argument starts: relative, at the file system root, or at
\* the parent directory of the configuration root
PathStarts == { <<>>, << Sep >>, Home \o << Sep, "cfg", Sep >> }

\* The path arguments a model can send: a start followed by up to MaxSegs
\* elements, and /etc/passwd
TargetPaths ==
    { start \o JoinSep(elems) :
        start \in PathStarts, elems \in SeqsUpTo(SegNames, MaxSegs) }
    \cup { << Sep, "etc", Sep, "passwd" >> }

EtcPasswd == << Sep, "etc", Sep, "passwd" >>

\* Arguments that json.Unmarshal rejects
BadJSON == << "not json" >>

\* No call of IsPathAllowed was made
NoGate == [allowed |-> FALSE, err |-> "not called"]

\* A read_file that opens the file before it asks the gate
ReadFileUngated(g, path, exists) ==
    IF ~exists
    THEN [output |-> "", err |-> "failed to read file", gate |-> g, opened |-> << path >>]
    ELSE IF g.err # "nil" \/ ~g.allowed
    THEN [output |-> "", err |-> "access denied", gate |-> g, opened |-> << path >>]
    ELSE [output |-> "file content", err |-> "nil", gate |-> g, opened |-> << path >>]

ReadFileExecuteUngated(c, bt, path, exists) ==
    IF path = BadJSON
    THEN [output |-> "", err |-> "invalid arguments", gate |-> NoGate, opened |-> <<>>]
    ELSE ReadFileUngated(IsPathAllowed(c, bt, path), path, exists)

\* What both tools do once IsPathAllowed has answered g: refuse, or hand the
\* path to the os and return its error or its content
GatedAccess(g, path, exists, failure, content) ==
    IF g.err # "nil" \/ ~g.allowed
    THEN [output |-> "", err |-> "access denied", gate |-> g, opened |-> <<>>]
    ELSE IF ~exists
    THEN [output |-> "", err |-> failure, gate |-> g, opened |-> << path >>]
    ELSE [output |-> content, err |-> "nil", gate |-> g, opened |-> << path >>]

\* ReadFileTool.Execute: (output, err), what the gate answered and the paths
\* handed to os.ReadFile; exists is whether os.ReadFile finds the file
ReadFileExecute(c, bt, path, exists) ==
    IF path = BadJSON
    THEN [output |-> "", err |-> "invalid arguments", gate |-> NoGate, opened |-> <<>>]
    ELSE GatedAccess(IsPathAllowed(c, bt, path), path, exists,
                     "failed to read file", "file content")

\* ListDirTool.Execute, with os.ReadDir
ListDirExecute(c, bt, path, exists) ==
    IF path = BadJSON
    THEN [output |-> "", err |-> "invalid arguments", gate |-> NoGate, opened |-> <<>>]
    ELSE GatedAccess(IsPathAllowed(c, bt, path), path, exists,
                     "failed to read directory", "names")

\* The gate's variables while another specification runs
GateIdle ==
    /\ cfg = "default"
    /\ backendType = SourceNative
    /\ argPath = <<>>
    /\ toolPc = "idle"
    /\ toolRet = [tool |-> "", output |-> "", err |-> "none"]
    /\ gate = NoGate
    /\ fsLog = <<>>

-----------------------------------------------------------------------------
\* Configuration text: NativeBackend.Parse and IR.String

\* The characters configuration text is made of
NL == "\n"
CR == "\r"
ConfigChars == { "a", "=", "#", "$", "{", "}", " ", NL, CR }

\* unicode.IsSpace on these characters
IsSpace(ch) == ch \in { " ", NL, CR }

\* strings.TrimSpace
RECURSIVE TrimLeft(_)
TrimLeft(s) == IF s # <<>> /\ IsSpace(Head(s)) THEN TrimLeft(Tail(s)) ELSE s

RECURSIVE TrimRight(_)
TrimRight(s) ==
    IF s # <<>> /\ IsSpace(s[Len(s)]) THEN TrimRight(SubSeq(s, 1, Len(s) - 1)) ELSE s

TrimSpace(s) == TrimRight(TrimLeft(s))

\* strings.HasSuffix
HasSuffix(s, suffix) ==
    Len(suffix) <= Len(s) /\ SubSeq(s, Len(s) - Len(suffix) + 1, Len(s)) = suffix

\* strings.Contains for a one-character substring
ContainsChar(s, ch) == \E i \in 1..Len(s) : s[i] = ch

\* A split at the last "="
SplitAtLast(s) ==
    IF ~ContainsChar(s, "=") THEN << s >>
    ELSE LET i == CHOOSE k \in 1..Len(s) : s[k] = "=" /\ \A j \in (k + 1)..Len(s) : s[j] # "="
         IN  << SubSeq(s, 1, i - 1), SubSeq(s, i + 1, Len(s)) >>

\* strings.SplitN(s, "=", 2)
SplitN2(s) ==
    IF ~ContainsChar(s, "=") THEN << s >>
    ELSE LET i == CHOOSE k \in 1..Len(s) : s[k] = "=" /\ \A j \in 1..(k - 1) : s[j] # "="
         IN  << SubSeq(s, 1, i - 1), SubSeq(s, i + 1, Len(s)) >>

\* dropCR of bufio.ScanLines
DropCR(line) ==
    IF line # <<>> /\ line[Len(line)] = CR THEN SubSeq(line, 1, Len(line) - 1) ELSE line

\* The tokens of bufio.Scanner with ScanLines: the text up to each newline
\* and, at the end of the input, what remains when it is not empty; a
\* trailing carriage return is dropped from each.
RECURSIVE ScanLines(_)
ScanLines(data) ==
    IF data = <<>> THEN <<>>
    ELSE IF ~ContainsChar(data, NL) THEN << DropCR(data) >>
    ELSE LET i == CHOOSE k \in 1..Len(data) : data[k] = NL /\ \A j \in 1..(k - 1) : data[j] # NL
         IN  << DropCR(SubSeq(data, 1, i - 1)) >> \o ScanLines(SubSeq(data, i + 1, Len(data)))

LineTypeEmpty        == 0
LineTypeComment      == 1
LineTypeVariable     == 2
LineTypeKeyValue     == 3
LineTypeSectionStart == 4
LineTypeSectionEnd   == 5
LineTypeUnknown      == 6

\* The ConfigLine Parse builds for one scanned line
ParseLine(lineNum, raw) ==
    LET trimmed == TrimSpace(raw)
        parts   == SplitN2(trimmed)
        line    == [LineNum |-> lineNum, Raw |-> raw, Type |-> LineTypeUnknown,
                    Key |-> <<>>, Value |-> <<>>]
    IN  IF trimmed = <<>> THEN [line EXCEPT !.Type = LineTypeEmpty]
        ELSE IF HasPrefix(trimmed, << "#" >>) THEN [line EXCEPT !.Type = LineTypeComment]
        ELSE IF HasPrefix(trimmed, << "$" >>)
        THEN IF Len(parts) = 2
             THEN [line EXCEPT !.Type = LineTypeVariable,
                               !.Key = TrimSpace(parts[1]), !.Value = TrimSpace(parts[2])]
             ELSE [line EXCEPT !.Type = LineTypeVariable]
        ELSE IF HasSuffix(trimmed, << "{" >>)
        THEN [line EXCEPT !.Type = LineTypeSectionStart,
                          !.Key = TrimSpace(SubSeq(trimmed, 1, Len(trimmed) - 1))]
        ELSE IF trimmed = << "}" >> THEN [line EXCEPT !.Type = LineTypeSectionEnd]
        ELSE IF ContainsChar(trimmed, "=")
        THEN [line EXCEPT !.Type = LineTypeKeyValue,
                          !.Key = TrimSpace(parts[1]), !.Value = TrimSpace(parts[2])]
        ELSE line

\* NativeBackend.Parse of a file with this content: IR.Lines
Parse(text) ==
    LET scanned == ScanLines(text)
    IN  [n \in 1..Len(scanned) |-> ParseLine(n, scanned[n])]

\* IR.String
RECURSIVE IRString(_)
IRString(lines) ==
    IF lines = <<>> THEN <<>>
    ELSE Head(lines).Raw \o << NL >> \o IRString(Tail(lines))

\* The parser's variables while another specification runs
ParseIdle ==
    /\ fileText = <<>>
    /\ ir = <<>>
    /\ irText = <<>>
    /\ parsePc = "idle"

-----------------------------------------------------------------------------
\* Text operations of the Go standard library used by the patch tools.
\* Positions are Go's: the first character is at 0.

Min(a, b) == IF a < b THEN a ELSE b
Max(a, b) == IF a > b THEN a ELSE b

\* s[i:j], s[i:] and s[:j]
Slice(s, i, j) == SubSeq(s, i + 1, j)
SliceFrom(s, i) == SubSeq(s, i + 1, Len(s))
SliceTo(s, j) == SubSeq(s, 1, j)

\* sub occurs in s at position k
Occurs(s, sub, k) == k >= 0 /\ k + Len(sub) <= Len(s) /\ Slice(s, k, k + Len(sub)) = sub

\* strings.Index and strings.LastIndex
Index(s, sub) ==
    IF \E k \in 0..Len(s) : Occurs(s, sub, k)
    THEN CHOOSE k \in 0..Len(s) : Occurs(s, sub, k) /\ \A j \in 0..(k - 1) : ~Occurs(s, sub, j)
    ELSE -1

LastIndex(s, sub) ==
    IF \E k \in 0..Len(s) : Occurs(s, sub, k)
    THEN CHOOSE k \in 0..Len(s) :
             Occurs(s, sub, k) /\ \A j \in (k + 1)..Len(s) : ~Occurs(s, sub, j)
    ELSE -1

\* strings.Contains
Contains(s, sub) == \E k \in 0..Len(s) : Occurs(s, sub, k)

\* strings.Split(s, "\n")
RECURSIVE SplitLines(_)
SplitLines(s) ==
    IF ~ContainsChar(s, NL) THEN << s >>
    ELSE << SliceTo(s, Index(s, << NL >>)) >> \o SplitLines(SliceFrom(s, Index(s, << NL >>) + 1))

\* strings.Join(lines, "\n")
RECURSIVE JoinLines(_)
JoinLines(lines) ==
    IF lines = <<>> THEN <<>>
    ELSE IF Len(lines) = 1 THEN lines[1]
    ELSE lines[1] \o << NL >> \o JoinLines(Tail(lines))

\* strconv.Itoa for 0..99 and strconv.Atoi for a string of digits
Digits == << "0", "1", "2", "3", "4", "5", "6", "7", "8", "9" >>

IsDigit(ch) == \E d \in 1..Len(Digits) : Digits[d] = ch

DigitValue(ch) == (CHOOSE d \in 1..Len(Digits) : Digits[d] = ch) - 1

Itoa(n) ==
    IF n < Len(Digits) THEN << Digits[n + 1] >>
    ELSE << Digits[(n \div Len(Digits)) + 1], Digits[(n % Len(Digits)) + 1] >>

RECURSIVE AtoiFrom(_, _)
AtoiFrom(s, acc) ==
    IF s = <<>> THEN acc
    ELSE AtoiFrom(Tail(s), acc * Len(Digits) + DigitValue(Head(s)))

Atoi(s) == AtoiFrom(s, 0)

-----------------------------------------------------------------------------
\* diffmatchpatch (github.com/sergi/go-diff), as the tools call it through
\* diffmatchpatch.New(): DiffMain, PatchMake, PatchToText, PatchFromText and
\* PatchApply with the default settings.

\* The settings of diffmatchpatch.New()
PatchMargin == 4
MatchMaxBits == 32
MatchDistance == 1000
\* MatchThreshold 0.5, in thousandths
MatchThreshold == 500

DiffDelete == "DiffDelete"
DiffInsert == "DiffInsert"
DiffEqual  == "DiffEqual"

\* Diff{Type, Text}
Diff(type, text) == [Type |-> type, Text |-> text]

\* An equality when the text is not empty
EqualIf(text) == IF text = <<>> THEN <<>> ELSE << Diff(DiffEqual, text) >>

commonPrefixLength(a, b) ==
    CHOOSE n \in 0..Min(Len(a), Len(b)) :
        /\ \A i \in 1..n : a[i] = b[i]
        /\ (n = Len(a) \/ n = Len(b) \/ a[n + 1] # b[n + 1])

commonSuffixLength(a, b) ==
    CHOOSE n \in 0..Min(Len(a), Len(b)) :
        /\ \A i \in 1..n : a[Len(a) - i + 1] = b[Len(b) - i + 1]
        /\ (n = Len(a) \/ n = Len(b) \/ a[Len(a) - n] # b[Len(b) - n])

\* indexOf and lastIndexOf of the library
IndexPlus(ind, i) == IF ind = -1 THEN -1 ELSE ind + i

indexOf(str, pattern, i) ==
    IF i > Len(str) - 1 THEN -1
    ELSE IF i <= 0 THEN Index(str, pattern)
    ELSE IndexPlus(Index(SliceFrom(str, i), pattern), i)

lastIndexOf(str, pattern, i) ==
    IF i < 0 THEN -1
    ELSE IF i >= Len(str) THEN LastIndex(str, pattern)
    ELSE LastIndex(SliceTo(str, i + 1), pattern)

\* ---- DiffCleanupMerge ----

\* The last element of a non-empty list with its text extended
AppendToLast(out, text) ==
    [out EXCEPT ![Len(out)] = Diff(out[Len(out)].Type, out[Len(out)].Text \o text)]

\* The common prefix of an insertion and a deletion goes to the equality
\* before them, or to a new equality at the front
FactorPrefix(out, prefix) ==
    IF prefix = <<>> THEN out
    ELSE IF out = <<>> THEN << Diff(DiffEqual, prefix) >>
    ELSE AppendToLast(out, prefix)

\* The merged run: the deletion, the insertion or both
MergedRun(cd, ci, td, ti) ==
    IF cd = 0 THEN << Diff(DiffInsert, ti) >>
    ELSE IF ci = 0 THEN << Diff(DiffDelete, td) >>
    ELSE << Diff(DiffDelete, td), Diff(DiffInsert, ti) >>

\* A run of more than one edit ends at the equality eq: with np and ns the
\* lengths of the common prefix and suffix that are factored out
MergeFactored(out, cd, ci, td, ti, eq, np, ns) ==
    FactorPrefix(out, SliceTo(ti, np))
        \o MergedRun(cd, ci, Slice(td, np, Len(td) - ns), Slice(ti, np, Len(ti) - ns))
        \o << Diff(DiffEqual, SliceFrom(ti, Len(ti) - ns) \o eq) >>

MergeSuffix(out, cd, ci, td, ti, eq, np) ==
    MergeFactored(out, cd, ci, td, ti, eq, np,
                  commonSuffixLength(SliceFrom(ti, np), SliceFrom(td, np)))

MergeRun(out, cd, ci, td, ti, eq) ==
    IF cd # 0 /\ ci # 0
    THEN MergeSuffix(out, cd, ci, td, ti, eq, commonPrefixLength(ti, td))
    ELSE MergeFactored(out, cd, ci, td, ti, eq, 0, 0)

\* What the first loop does at an equality
AtEquality(out, cd, ci, td, ti, eq) ==
    IF cd + ci > 1 THEN MergeRun(out, cd, ci, td, ti, eq)
    ELSE IF cd + ci = 1 THEN out \o MergedRun(cd, ci, td, ti) \o << Diff(DiffEqual, eq) >>
    ELSE IF out # <<>> THEN AppendToLast(out, eq)
    ELSE << Diff(DiffEqual, eq) >>

\* The first loop of DiffCleanupMerge over diffs[p..], with the edits since
\* the last equality counted in cd, ci and collected in td, ti
RECURSIVE MergeLoop(_, _, _, _, _, _, _)
MergeLoop(diffs, p, out, cd, ci, td, ti) ==
    IF p > Len(diffs) THEN out
    ELSE IF diffs[p].Type = DiffInsert
    THEN MergeLoop(diffs, p + 1, out, cd, ci + 1, td, ti \o diffs[p].Text)
    ELSE IF diffs[p].Type = DiffDelete
    THEN MergeLoop(diffs, p + 1, out, cd + 1, ci, td \o diffs[p].Text, ti)
    ELSE MergeLoop(diffs, p + 1, AtEquality(out, cd, ci, td, ti, diffs[p].Text),
                   0, 0, <<>>, <<>>)

\* The dummy entry at the end is removed when it is still empty
DropEmptyLast(diffs) ==
    IF diffs[Len(diffs)].Text = <<>> THEN SliceTo(diffs, Len(diffs) - 1) ELSE diffs

\* A list without its element at position i (from 0)
RemoveAt(diffs, i) == SliceTo(diffs, i) \o SliceFrom(diffs, i + 1)

\* The single edit at p (from 0) is shifted over the equality before it
ShiftLeft(diffs, p) ==
    RemoveAt([diffs EXCEPT
                ![p + 1] = Diff(diffs[p + 1].Type,
                                diffs[p].Text \o
                                SliceTo(diffs[p + 1].Text,
                                        Len(diffs[p + 1].Text) - Len(diffs[p].Text))),
                ![p + 2] = Diff(DiffEqual, diffs[p].Text \o diffs[p + 2].Text)],
             p - 1)

\* The single edit at p (from 0) is shifted over the equality after it
ShiftRight(diffs, p) ==
    RemoveAt([diffs EXCEPT
                ![p] = Diff(DiffEqual, diffs[p].Text \o diffs[p + 2].Text),
                ![p + 1] = Diff(diffs[p + 1].Type,
                                SliceFrom(diffs[p + 1].Text, Len(diffs[p + 2].Text))
                                \o diffs[p + 2].Text)],
             p + 1)

\* The second loop of DiffCleanupMerge from pointer p (from 0): the list and
\* whether a shift was made
RECURSIVE ShiftLoop(_, _, _)
ShiftLoop(diffs, p, changes) ==
    IF p >= Len(diffs) - 1 THEN [diffs |-> diffs, changes |-> changes]
    ELSE IF diffs[p].Type = DiffEqual /\ diffs[p + 2].Type = DiffEqual
    THEN IF HasSuffix(diffs[p + 1].Text, diffs[p].Text)
         THEN ShiftLoop(ShiftLeft(diffs, p), p + 1, TRUE)
         ELSE IF HasPrefix(diffs[p + 1].Text, diffs[p + 2].Text)
         THEN ShiftLoop(ShiftRight(diffs, p), p + 1, TRUE)
         ELSE ShiftLoop(diffs, p + 1, changes)
    ELSE ShiftLoop(diffs, p + 1, changes)

RECURSIVE DiffCleanupMerge(_)
MergeAgain(shifted) ==
    IF shifted.changes THEN DiffCleanupMerge(shifted.diffs) ELSE shifted.diffs

DiffCleanupMerge(diffs) ==
    MergeAgain(ShiftLoop(
        DropEmptyLast(MergeLoop(diffs \o << Diff(DiffEqual, <<>>) >>, 1, <<>>, 0, 0, <<>>, <<>>)),
        1, FALSE))

\* ---- DiffMain ----
RECURSIVE DiffMain(_, _)

\* No half match
NoHalfMatch == << >>

\* The better candidate of diffHalfMatchI for the seed found at j in s
HalfMatchBest(l, s, i, j, pl, sl, best) ==
    IF Len(best[5]) < sl + pl
    THEN << SliceTo(l, i - sl), SliceFrom(l, i + pl),
            SliceTo(s, j - sl), SliceFrom(s, j + pl), Slice(s, j - sl, j + pl) >>
    ELSE best

RECURSIVE HalfMatchLoop(_, _, _, _, _, _)
HalfMatchLoop(l, s, i, seed, j, best) ==
    IF j = -1 THEN best
    ELSE HalfMatchLoop(l, s, i, seed, indexOf(s, seed, j + 1),
                       HalfMatchBest(l, s, i, j,
                                     commonPrefixLength(SliceFrom(l, i), SliceFrom(s, j)),
                                     commonSuffixLength(SliceTo(l, i), SliceTo(s, j)),
                                     best))

HalfMatchResult(l, best) ==
    IF Len(best[5]) * 2 >= Len(l) THEN best ELSE NoHalfMatch

HalfMatchSeeded(l, s, i, seed) ==
    HalfMatchResult(l, HalfMatchLoop(l, s, i, seed, indexOf(s, seed, 0),
                                     << <<>>, <<>>, <<>>, <<>>, <<>> >>))

\* diffHalfMatchI: does a substring of s exist within l such that the
\* substring is at least half the length of l, seeded at l[i]
diffHalfMatchI(l, s, i) == HalfMatchSeeded(l, s, i, Slice(l, i, i + (Len(l) \div 4)))

HalfMatchPick(hm1, hm2) ==
    IF hm2 = NoHalfMatch THEN hm1
    ELSE IF hm1 = NoHalfMatch THEN hm2
    ELSE IF Len(hm1[5]) > Len(hm2[5]) THEN hm1 ELSE hm2

HalfMatchLongShort(l, s) ==
    IF Len(l) < 4 \/ Len(s) * 2 < Len(l) THEN NoHalfMatch
    ELSE HalfMatchPick(diffHalfMatchI(l, s, (Len(l) + 3) \div 4),
                       diffHalfMatchI(l, s, (Len(l) + 1) \div 2))

HalfMatchSwap(hm) ==
    IF hm = NoHalfMatch THEN hm ELSE << hm[3], hm[4], hm[1], hm[2], hm[5] >>

\* diffHalfMatch: (text1A, text1B, text2A, text2B, common middle)
diffHalfMatch(text1, text2) ==
    IF Len(text1) > Len(text2) THEN HalfMatchLongShort(text1, text2)
    ELSE HalfMatchSwap(HalfMatchLongShort(text2, text1))

\* ---- diffBisect ----
\* v1, v2: furthest x of the forward and the reverse path per diagonal
BisectStart(n1, n2) ==
    [v1 |-> [o \in 0..(2 * ((n1 + n2 + 1) \div 2) - 1) |->
                IF o = ((n1 + n2 + 1) \div 2) + 1 THEN 0 ELSE -1],
     v2 |-> [o \in 0..(2 * ((n1 + n2 + 1) \div 2) - 1) |->
                IF o = ((n1 + n2 + 1) \div 2) + 1 THEN 0 ELSE -1],
     k1start |-> 0, k1end |-> 0, k2start |-> 0, k2end |-> 0,
     hit |-> FALSE, x |-> 0, y |-> 0]

BisectMaxD(text1, text2) == (Len(text1) + Len(text2) + 1) \div 2

\* Where the path on diagonal k starts in step d
BisectX(v, o, k, d) ==
    IF k = -d \/ (k # d /\ v[o - 1] < v[o + 1]) THEN v[o + 1] ELSE v[o - 1] + 1

\* The forward path follows the diagonal from (x, y) while the texts agree
SnakeForward(text1, text2, x, y) ==
    IF x < 0 \/ y < 0 \/ x >= Len(text1) \/ y >= Len(text2) THEN x
    ELSE x + commonPrefixLength(SliceFrom(text1, x), SliceFrom(text2, y))

\* The reverse path, counted from the ends of the texts
SnakeReverse(text1, text2, x, y) ==
    IF x < 0 \/ y < 0 \/ x >= Len(text1) \/ y >= Len(text2) THEN x
    ELSE x + commonSuffixLength(SliceTo(text1, Len(text1) - x), SliceTo(text2, Len(text2) - y))

BisectFront(text1, text2) == (Len(text1) - Len(text2)) % 2 # 0

\* The forward path reached x1 on diagonal k1: does it overlap the reverse
\* path?
ForwardOverlap(text1, text2, st, k1, x1) ==
    /\ BisectFront(text1, text2)
    /\ BisectMaxD(text1, text2) + Len(text1) - Len(text2) - k1 \in DOMAIN st.v2
    /\ st.v2[BisectMaxD(text1, text2) + Len(text1) - Len(text2) - k1] # -1
    /\ x1 >= Len(text1) - st.v2[BisectMaxD(text1, text2) + Len(text1) - Len(text2) - k1]

ForwardStep(text1, text2, st, k1, x1) ==
    IF x1 > Len(text1)
    THEN [st EXCEPT !.v1[BisectMaxD(text1, text2) + k1] = x1, !.k1end = @ + 2]
    ELSE IF x1 - k1 > Len(text2)
    THEN [st EXCEPT !.v1[BisectMaxD(text1, text2) + k1] = x1, !.k1start = @ + 2]
    ELSE IF ForwardOverlap(text1, text2, st, k1, x1)
    THEN [st EXCEPT !.v1[BisectMaxD(text1, text2) + k1] = x1,
                    !.hit = TRUE, !.x = x1, !.y = x1 - k1]
    ELSE [st EXCEPT !.v1[BisectMaxD(text1, text2) + k1] = x1]

\* The reverse path reached x2 on diagonal k2: does it overlap the forward
\* path?
ReverseOverlap(text1, text2, st, k2, x2) ==
    /\ ~BisectFront(text1, text2)
    /\ BisectMaxD(text1, text2) + Len(text1) - Len(text2) - k2 \in DOMAIN st.v1
    /\ st.v1[BisectMaxD(text1, text2) + Len(text1) - Len(text2) - k2] # -1
    /\ st.v1[BisectMaxD(text1, text2) + Len(text1) - Len(text2) - k2] >= Len(text1) - x2

\* x1 and y1 of the split when the reverse path on k2 met the forward path
ReverseHit(text1, text2, st, k2, x1) ==
    [st EXCEPT !.hit = TRUE, !.x = x1,
               !.y = x1 - (Len(text1) - Len(text2) - k2)]

ReverseStep(text1, text2, st, k2, x2) ==
    IF x2 > Len(text1)
    THEN [st EXCEPT !.v2[BisectMaxD(text1, text2) + k2] = x2, !.k2end = @ + 2]
    ELSE IF x2 - k2 > Len(text2)
    THEN [st EXCEPT !.v2[BisectMaxD(text1, text2) + k2] = x2, !.k2start = @ + 2]
    ELSE IF ReverseOverlap(text1, text2, st, k2, x2)
    THEN ReverseHit(text1, text2,
                    [st EXCEPT !.v2[BisectMaxD(text1, text2) + k2] = x2], k2,
                    st.v1[BisectMaxD(text1, text2) + Len(text1) - Len(text2) - k2])
    ELSE [st EXCEPT !.v2[BisectMaxD(text1, text2) + k2] = x2]

ForwardOn(text1, text2, st, d, k1, x) ==
    ForwardStep(text1, text2, st, k1, SnakeForward(text1, text2, x, x - k1))

ReverseOn(text1, text2, st, d, k2, x) ==
    ReverseStep(text1, text2, st, k2, SnakeReverse(text1, text2, x, x - k2))

\* The loops of diffBisect: "front" walks the forward path of step d from
\* diagonal k, "back" the reverse path; the result is the state at the
\* overlap, or without a hit when every step is done
RECURSIVE BisectLoop(_, _, _, _, _, _)
BisectLoop(text1, text2, st, d, k, dir) ==
    IF st.hit \/ d >= BisectMaxD(text1, text2) THEN st
    ELSE IF dir = "front"
    THEN IF k > d - st.k1end
         THEN BisectLoop(text1, text2, st, d, -d + st.k2start, "back")
         ELSE BisectLoop(text1, text2,
                         ForwardOn(text1, text2, st, d, k,
                                   BisectX(st.v1, BisectMaxD(text1, text2) + k, k, d)),
                         d, k + 2, "front")
    ELSE IF k > d - st.k2end
         THEN BisectLoop(text1, text2, st, d + 1, -(d + 1) + st.k1start, "front")
         ELSE BisectLoop(text1, text2,
                         ReverseOn(text1, text2, st, d, k,
                                   BisectX(st.v2, BisectMaxD(text1, text2) + k, k, d)),
                         d, k + 2, "back")

\* diffBisectSplit, or no commonality at all
BisectResult(text1, text2, st) ==
    IF st.hit
    THEN DiffMain(SliceTo(text1, st.x), SliceTo(text2, st.y))
         \o DiffMain(SliceFrom(text1, st.x), SliceFrom(text2, st.y))
    ELSE << Diff(DiffDelete, text1), Diff(DiffInsert, text2) >>

diffBisect(text1, text2) ==
    BisectResult(text1, text2,
                 BisectLoop(text1, text2, BisectStart(Len(text1), Len(text2)), 0, 0, "front"))

\* ---- diffCompute ----
ComputeHalf(text1, text2, hm) ==
    IF hm # NoHalfMatch
    THEN DiffMain(hm[1], hm[3]) \o << Diff(DiffEqual, hm[5]) >> \o DiffMain(hm[2], hm[4])
    ELSE diffBisect(text1, text2)

ComputeAt(text1, text2, long, short, op, i) ==
    IF i # -1
    THEN << Diff(op, SliceTo(long, i)), Diff(DiffEqual, short),
            Diff(op, SliceFrom(long, i + Len(short))) >>
    ELSE IF Len(short) = 1
    THEN << Diff(DiffDelete, text1), Diff(DiffInsert, text2) >>
    ELSE ComputeHalf(text1, text2, diffHalfMatch(text1, text2))

diffCompute(text1, text2) ==
    IF text1 = <<>> THEN << Diff(DiffInsert, text2) >>
    ELSE IF text2 = <<>> THEN << Diff(DiffDelete, text1) >>
    ELSE IF Len(text1) > Len(text2)
    THEN ComputeAt(text1, text2, text1, text2, DiffDelete, Index(text1, text2))
    ELSE ComputeAt(text1, text2, text2, text1, DiffInsert, Index(text2, text1))

MainTrimmed(prefix, text1, text2, n) ==
    DiffCleanupMerge(EqualIf(prefix)
                     \o diffCompute(SliceTo(text1, Len(text1) - n), SliceTo(text2, Len(text2) - n))
                     \o EqualIf(SliceFrom(text1, Len(text1) - n)))

MainSuffix(prefix, text1, text2) ==
    MainTrimmed(prefix, text1, text2, commonSuffixLength(text1, text2))

MainPrefix(text1, text2, n) ==
    MainSuffix(SliceTo(text1, n), SliceFrom(text1, n), SliceFrom(text2, n))

\* DiffMain(text1, text2, false)
DiffMain(text1, text2) ==
    IF text1 = text2 THEN EqualIf(text1)
    ELSE MainPrefix(text1, text2, commonPrefixLength(text1, text2))

\* ---- DiffCleanupSemanticLossless ----
\* unicode.IsLetter / unicode.IsNumber on the characters texts are written
\* with
Letters == { "a", "b", "c" }

IsAlphaNum(ch) == IsDigit(ch) \/ ch \in Letters

IsLineBreak(ch) == ch \in { NL, CR }

\* blanklineEndRegex \n\r?\n$ and blanklineStartRegex ^\r?\n\r?\n
EndsWithBlankLine(one) ==
    HasSuffix(one, << NL, NL >>) \/ HasSuffix(one, << NL, CR, NL >>)

StartsWithBlankLine(two) ==
    \/ HasPrefix(two, << NL, NL >>)
    \/ HasPrefix(two, << NL, CR, NL >>)
    \/ HasPrefix(two, << CR, NL, NL >>)
    \/ HasPrefix(two, << CR, NL, CR, NL >>)

\* The score for the last character c1 of one and the first c2 of two
SemanticScoreAt(one, two, c1, c2) ==
    IF \/ (IsLineBreak(c1) /\ EndsWithBlankLine(one))
       \/ (IsLineBreak(c2) /\ StartsWithBlankLine(two)) THEN 5
    ELSE IF IsLineBreak(c1) \/ IsLineBreak(c2) THEN 4
    ELSE IF ~IsAlphaNum(c1) /\ ~IsSpace(c1) /\ IsSpace(c2) THEN 3
    ELSE IF IsSpace(c1) \/ IsSpace(c2) THEN 2
    ELSE IF ~IsAlphaNum(c1) \/ ~IsAlphaNum(c2) THEN 1
    ELSE 0

\* diffCleanupSemanticScore: how well the boundary between one and two
\* falls on a logical boundary, 6 (best) to 0 (worst)
diffCleanupSemanticScore(one, two) ==
    IF one = <<>> \/ two = <<>> THEN 6
    ELSE SemanticScoreAt(one, two, one[Len(one)], two[1])

SlideScore(e) ==
    diffCleanupSemanticScore(e[1], e[2]) + diffCleanupSemanticScore(e[2], e[3])

\* The edit slides right one character at a time; best is the best
\* (equality1, edit, equality2) so far with its score
RECURSIVE SlideRight(_, _, _)
SlideNext(e) ==
    << e[1] \o << e[2][1] >>, Tail(e[2]) \o << e[3][1] >>, Tail(e[3]) >>

SlideBetter(e, best, bestScore) ==
    IF SlideScore(e) >= bestScore THEN SlideRight(e, e, SlideScore(e))
    ELSE SlideRight(e, best, bestScore)

SlideRight(e, best, bestScore) ==
    IF e[2] # <<>> /\ e[3] # <<>> /\ e[2][1] = e[3][1]
    THEN SlideBetter(SlideNext(e), best, bestScore)
    ELSE best

\* The edit is first shifted as far left as possible
SlideLeft(equality1, edit, equality2, n) ==
    << SliceTo(equality1, Len(equality1) - n),
       SliceFrom(edit, Len(edit) - n) \o SliceTo(edit, Len(edit) - n),
       SliceFrom(edit, Len(edit) - n) \o equality2 >>

SlideBest(e) == SlideRight(e, e, SlideScore(e))

\* The list with the improved (equality1, edit, equality2) at p (from 0);
\* empty equalities are removed
SlideReplace(diffs, p, best) ==
    EqualIf(best[1]) \o << Diff(diffs[p + 1].Type, best[2]) >> \o EqualIf(best[3])

RECURSIVE LosslessLoop(_, _)
LosslessAt(diffs, p, best) ==
    IF diffs[p].Text # best[1]
    THEN LosslessLoop(SliceTo(diffs, p - 1) \o SlideReplace(diffs, p, best)
                          \o SliceFrom(diffs, p + 2),
                      p + 1 - (IF best[1] = <<>> THEN 1 ELSE 0)
                            - (IF best[3] = <<>> THEN 1 ELSE 0))
    ELSE LosslessLoop(diffs, p + 1)

LosslessLoop(diffs, p) ==
    IF p >= Len(diffs) - 1 THEN diffs
    ELSE IF diffs[p].Type = DiffEqual /\ diffs[p + 2].Type = DiffEqual
    THEN LosslessAt(diffs, p,
                    SlideBest(SlideLeft(diffs[p].Text, diffs[p + 1].Text, diffs[p + 2].Text,
                                        commonSuffixLength(diffs[p].Text, diffs[p + 1].Text))))
    ELSE LosslessLoop(diffs, p + 1)

DiffCleanupSemanticLossless(diffs) == LosslessLoop(diffs, 1)

\* ---- DiffXIndex, DiffText1, DiffText2 ----
RECURSIVE DiffText1(_)
DiffText1(diffs) ==
    IF diffs = <<>> THEN <<>>
    ELSE IF Head(diffs).Type # DiffInsert THEN Head(diffs).Text \o DiffText1(Tail(diffs))
    ELSE DiffText1(Tail(diffs))

RECURSIVE DiffText2(_)
DiffText2(diffs) ==
    IF diffs = <<>> THEN <<>>
    ELSE IF Head(diffs).Type # DiffDelete THEN Head(diffs).Text \o DiffText2(Tail(diffs))
    ELSE DiffText2(Tail(diffs))

Len1(d) == IF d.Type # DiffInsert THEN Len(d.Text) ELSE 0
Len2(d) == IF d.Type # DiffDelete THEN Len(d.Text) ELSE 0

\* DiffXIndex: the position in text2 of the position loc of text1
RECURSIVE XIndexLoop(_, _, _, _, _)
XIndexLoop(diffs, loc, p, lastChars1, lastChars2) ==
    IF p > Len(diffs) THEN lastChars2 + (loc - lastChars1)
    ELSE IF lastChars1 + Len1(diffs[p]) > loc
    THEN IF diffs[p].Type = DiffDelete THEN lastChars2
         ELSE lastChars2 + (loc - lastChars1)
    ELSE XIndexLoop(diffs, loc, p + 1, lastChars1 + Len1(diffs[p]), lastChars2 + Len2(diffs[p]))

DiffXIndex(diffs, loc) == XIndexLoop(diffs, loc, 1, 0, 0)

\* DiffLevenshtein
RECURSIVE LevenshteinLoop(_, _, _, _)
LevenshteinLoop(diffs, levenshtein, insertions, deletions) ==
    IF diffs = <<>> THEN levenshtein + Max(insertions, deletions)
    ELSE IF Head(diffs).Type = DiffInsert
    THEN LevenshteinLoop(Tail(diffs), levenshtein, insertions + Len(Head(diffs).Text), deletions)
    ELSE IF Head(diffs).Type = DiffDelete
    THEN LevenshteinLoop(Tail(diffs), levenshtein, insertions, deletions + Len(Head(diffs).Text))
    ELSE LevenshteinLoop(Tail(diffs), levenshtein + Max(insertions, deletions), 0, 0)

DiffLevenshtein(diffs) == LevenshteinLoop(diffs, 0, 0, 0)

\* ---- MatchMain and MatchBitap ----
Abs(n) == IF n < 0 THEN -n ELSE n

\* matchBitapScore for e errors at x, times 1000 * len(pattern): accuracy
\* e / len(pattern) plus proximity |loc - x| / MatchDistance
matchBitapScore(e, x, loc, pattern) ==
    e * MatchDistance + Abs(loc - x) * Len(pattern)

\* The bit mask of character ch in the pattern (matchAlphabet), as the set
\* of its bits
CharMask(pattern, ch) ==
    { Len(pattern) - i : i \in { k \in 1..Len(pattern) : pattern[k] = ch } }

\* (bits << 1) | 1
ShiftOr1(bits) == { b + 1 : b \in bits } \cup { 0 }

\* The threshold after the exact occurrences of the pattern near loc
ThresholdAfterLast(text, pattern, loc, threshold, bestLoc) ==
    IF bestLoc # -1 THEN Min(matchBitapScore(0, bestLoc, loc, pattern), threshold)
    ELSE threshold

ThresholdAfterFirst(text, pattern, loc, bestLoc) ==
    IF bestLoc # -1
    THEN ThresholdAfterLast(text, pattern, loc,
                            Min(matchBitapScore(0, bestLoc, loc, pattern),
                                MatchThreshold * Len(pattern)),
                            lastIndexOf(text, pattern, loc + Len(pattern)))
    ELSE MatchThreshold * Len(pattern)

\* The binary search of step d for how far from loc a match may be
RECURSIVE BinSearch(_, _, _, _, _, _, _)
BinSearch(d, loc, pattern, threshold, binMin, binMid, binMax) ==
    IF binMin < binMid
    THEN IF matchBitapScore(d, loc + binMid, loc, pattern) <= threshold
         THEN BinSearch(d, loc, pattern, threshold, binMid,
                        ((binMax - binMid) \div 2) + binMid, binMax)
         ELSE BinSearch(d, loc, pattern, threshold, binMin,
                        ((binMid - binMin) \div 2) + binMin, binMid)
    ELSE binMid

\* charMatch of text[j-1]
CharMatch(text, pattern, j) ==
    IF Len(text) <= j - 1 THEN {} ELSE CharMask(pattern, text[j])

\* rd[j] of step d from rd[j+1] and the previous step's lastRd
RdAt(text, pattern, d, j, rd, lastRd) ==
    IF d = 0 THEN ShiftOr1(rd[j + 1]) \cap CharMatch(text, pattern, j)
    ELSE (ShiftOr1(rd[j + 1]) \cap CharMatch(text, pattern, j))
         \cup ShiftOr1(lastRd[j + 1] \cup lastRd[j])
         \cup lastRd[j + 1]

\* The scan of step d from j down to start: s is (rd, threshold, bestLoc)
RECURSIVE ScanLoop(_, _, _, _, _, _, _, _)
ScanFound(text, pattern, loc, d, j, start, lastRd, s) ==
    IF (Len(pattern) - 1) \in s.rd[j]
       /\ matchBitapScore(d, j - 1, loc, pattern) <= s.threshold
    THEN IF j - 1 > loc
         THEN ScanLoop(text, pattern, loc, d, j - 1, Max(1, 2 * loc - (j - 1)), lastRd,
                       [s EXCEPT !.threshold = matchBitapScore(d, j - 1, loc, pattern),
                                 !.bestLoc = j - 1])
         ELSE [s EXCEPT !.threshold = matchBitapScore(d, j - 1, loc, pattern),
                        !.bestLoc = j - 1]
    ELSE ScanLoop(text, pattern, loc, d, j - 1, start, lastRd, s)

ScanLoop(text, pattern, loc, d, j, start, lastRd, s) ==
    IF j < start THEN s
    ELSE ScanFound(text, pattern, loc, d, j, start, lastRd,
                   [s EXCEPT !.rd[j] = RdAt(text, pattern, d, j, s.rd, lastRd)])

\* rd of step d before the scan: rd[finish+1] = (1 << d) - 1
RdStart(finish, d) ==
    [j \in 0..(finish + 1) |-> IF j = finish + 1 THEN 0..(d - 1) ELSE {}]

ScanStep(text, pattern, loc, d, binMid, lastRd, s) ==
    ScanLoop(text, pattern, loc, d,
             Min(loc + binMid, Len(text)) + Len(pattern),
             Max(1, loc - binMid + 1), lastRd,
             [s EXCEPT !.rd = RdStart(Min(loc + binMid, Len(text)) + Len(pattern), d)])

\* The steps d = 0, 1, ... of MatchBitap: s is (rd, threshold, bestLoc) of
\* the step before, binMax the limit of the binary search
RECURSIVE BitapLoop(_, _, _, _, _, _)
BitapNext(text, pattern, loc, d, binMid, s) ==
    IF matchBitapScore(d + 1, loc, loc, pattern) > s.threshold THEN s.bestLoc
    ELSE BitapLoop(text, pattern, loc, d + 1, binMid, s)

BitapStep(text, pattern, loc, d, binMid, s) ==
    BitapNext(text, pattern, loc, d, binMid,
              ScanStep(text, pattern, loc, d, binMid, s.rd, s))

BitapLoop(text, pattern, loc, d, binMax, s) ==
    IF d >= Len(pattern) THEN s.bestLoc
    ELSE BitapStep(text, pattern, loc, d,
                   BinSearch(d, loc, pattern, s.threshold, 0, binMax, binMax), s)

\* MatchBitap: the best match of pattern in text near loc, or -1
MatchBitap(text, pattern, loc) ==
    BitapLoop(text, pattern, loc, 0, Len(pattern) + Len(text),
              [rd |-> << >>,
               threshold |-> ThresholdAfterFirst(text, pattern, loc, indexOf(text, pattern, loc)),
               bestLoc |-> -1])

MatchAt(text, pattern, loc) ==
    IF text = pattern THEN 0
    ELSE IF Len(text) = 0 THEN -1
    ELSE IF Occurs(text, pattern, loc) THEN loc
    ELSE MatchBitap(text, pattern, loc)

\* MatchMain
MatchMain(text, pattern, loc) == MatchAt(text, pattern, Max(0, Min(loc, Len(text))))

\* ---- PatchMake ----
\* Patch{diffs, Start1, Start2, Length1, Length2}
EmptyPatch == [diffs |-> <<>>, Start1 |-> 0, Start2 |-> 0, Length1 |-> 0, Length2 |-> 0]

\* The pattern PatchAddContext looks for with this much padding
ContextPattern(patch, text, padding) ==
    Slice(text, Max(0, patch.Start2 - padding),
          Min(Len(text), patch.Start2 + patch.Length1 + padding))

\* The padding grows until the pattern is unique in the text
RECURSIVE ContextPadding(_, _, _)
ContextGrow(patch, text, padding, pattern) ==
    IF Index(text, pattern) # LastIndex(text, pattern)
       /\ Len(pattern) < MatchMaxBits - 2 * PatchMargin
    THEN ContextPadding(patch, text, padding + PatchMargin)
    ELSE padding + PatchMargin

ContextPadding(patch, text, padding) ==
    ContextGrow(patch, text, padding, ContextPattern(patch, text, padding))

WithContext(patch, prefix, suffix) ==
    [diffs   |-> EqualIf(prefix) \o patch.diffs \o EqualIf(suffix),
     Start1  |-> patch.Start1 - Len(prefix),
     Start2  |-> patch.Start2 - Len(prefix),
     Length1 |-> patch.Length1 + Len(prefix) + Len(suffix),
     Length2 |-> patch.Length2 + Len(prefix) + Len(suffix)]

ContextAround(patch, text, padding) ==
    WithContext(patch,
                Slice(text, Max(0, patch.Start2 - padding), patch.Start2),
                Slice(text, patch.Start2 + patch.Length1,
                      Min(Len(text), patch.Start2 + patch.Length1 + padding)))

\* PatchAddContext
PatchAddContext(patch, text) ==
    IF Len(text) = 0 THEN patch
    ELSE ContextAround(patch, text, ContextPadding(patch, text, 0))

\* The patch gets its start when its first edit arrives
StartIfFirst(s, d) ==
    IF s.patch.diffs = <<>> /\ d.Type # DiffEqual
    THEN [s EXCEPT !.patch.Start1 = s.charCount1, !.patch.Start2 = s.charCount2]
    ELSE s

\* An equality of at least 2*PatchMargin closes the patch
ClosePatch(s) ==
    IF s.patch.diffs # <<>>
    THEN [s EXCEPT !.patches = Append(@, PatchAddContext(s.patch, s.prepatchText)),
                   !.patch = EmptyPatch,
                   !.prepatchText = s.postpatchText,
                   !.charCount1 = s.charCount2]
    ELSE s

SmallEquality(s, d, last) ==
    IF Len(d.Text) <= 2 * PatchMargin /\ s.patch.diffs # <<>> /\ ~last
    THEN [s EXCEPT !.patch.diffs = Append(@, d),
                   !.patch.Length1 = @ + Len(d.Text),
                   !.patch.Length2 = @ + Len(d.Text)]
    ELSE s

LargeEquality(s, d) ==
    IF Len(d.Text) >= 2 * PatchMargin THEN ClosePatch(s) ELSE s

\* The switch of patchMake2 on the type of the diff
AddDiff(s, d, last) ==
    IF d.Type = DiffInsert
    THEN [s EXCEPT !.patch.diffs = Append(@, d),
                   !.patch.Length2 = @ + Len(d.Text),
                   !.postpatchText = SliceTo(@, s.charCount2) \o d.Text
                                     \o SliceFrom(@, s.charCount2)]
    ELSE IF d.Type = DiffDelete
    THEN [s EXCEPT !.patch.diffs = Append(@, d),
                   !.patch.Length1 = @ + Len(d.Text),
                   !.postpatchText = SliceTo(@, s.charCount2)
                                     \o SliceFrom(@, s.charCount2 + Len(d.Text))]
    ELSE LargeEquality(SmallEquality(s, d, last), d)

Advance(s, d) ==
    [s EXCEPT !.charCount1 = @ + Len1(d), !.charCount2 = @ + Len2(d)]

RECURSIVE MakeLoop(_, _, _)
MakeLoop(diffs, i, s) ==
    IF i > Len(diffs) THEN s
    ELSE MakeLoop(diffs, i + 1,
                  Advance(AddDiff(StartIfFirst(s, diffs[i]), diffs[i], i = Len(diffs)),
                          diffs[i]))

\* The leftover patch is picked up
MakeEnd(s) ==
    IF s.patch.diffs # <<>>
    THEN Append(s.patches, PatchAddContext(s.patch, s.prepatchText))
    ELSE s.patches

\* PatchMake(text1, diffs)
PatchMake(text1, diffs) ==
    IF diffs = <<>> THEN <<>>
    ELSE MakeEnd(MakeLoop(diffs, 1,
                          [patches |-> <<>>, patch |-> EmptyPatch,
                           charCount1 |-> 0, charCount2 |-> 0,
                           prepatchText |-> text1, postpatchText |-> text1]))

\* ---- PatchToText ----
\* The character 0x60 of a code fence
Backtick == "\\x60"

\* Characters url.QueryEscape writes as %XX and the library leaves escaped,
\* with their two hex digits
Escaped ==
    { << NL, "0", "A" >>, << CR, "0", "D" >>, << "%", "2", "5" >>,
      << Backtick, "6", "0" >>, << "{", "7", "B" >>, << "}", "7", "D" >> }

\* One character of a diff's text in the patch format: a space stays a
\* space, the characters of Escaped become %XX, every other character of the
\* model is written as it is
EscapeChar(ch) ==
    IF \E e \in Escaped : e[1] = ch
    THEN << "%" >> \o Tail(CHOOSE e \in Escaped : e[1] = ch)
    ELSE << ch >>

RECURSIVE EscapeText(_)
EscapeText(text) ==
    IF text = <<>> THEN <<>> ELSE EscapeChar(Head(text)) \o EscapeText(Tail(text))

\* The coordinates of a header
Coords(start, length) ==
    IF length = 0 THEN Itoa(start) \o << ",", "0" >>
    ELSE IF length = 1 THEN Itoa(start + 1)
    ELSE Itoa(start + 1) \o << "," >> \o Itoa(length)

Sign(type) ==
    IF type = DiffInsert THEN "+" ELSE IF type = DiffDelete THEN "-" ELSE " "

RECURSIVE DiffLines(_)
DiffLines(diffs) ==
    IF diffs = <<>> THEN <<>>
    ELSE << Sign(Head(diffs).Type) >> \o EscapeText(Head(diffs).Text) \o << NL >>
         \o DiffLines(Tail(diffs))

\* Patch.String
PatchString(patch) ==
    << "@", "@", " ", "-" >> \o Coords(patch.Start1, patch.Length1)
    \o << " ", "+" >> \o Coords(patch.Start2, patch.Length2)
    \o << " ", "@", "@", NL >> \o DiffLines(patch.diffs)

RECURSIVE PatchToText(_)
PatchToText(patches) ==
    IF patches = <<>> THEN <<>>
    ELSE PatchString(Head(patches)) \o PatchToText(Tail(patches))

\* ---- PatchFromText ----
\* The longest run of digits at the start of s
RECURSIVE LeadingDigits(_)
LeadingDigits(s) ==
    IF s # <<>> /\ IsDigit(Head(s)) THEN << Head(s) >> \o LeadingDigits(Tail(s)) ELSE <<>>

\* (\d+),?(\d*) at the start of s: the two groups and what follows them, or
\* no match
NoMatch == [ok |-> FALSE]

CoordLength(start, afterComma) ==
    [ok |-> TRUE, start |-> start, length |-> LeadingDigits(afterComma),
     rest |-> SliceFrom(afterComma, Len(LeadingDigits(afterComma)))]

CoordAfter(start, rest) ==
    IF rest # <<>> /\ Head(rest) = ","
    THEN CoordLength(start, Tail(rest))
    ELSE [ok |-> TRUE, start |-> start, length |-> <<>>, rest |-> rest]

ParseCoords(s) ==
    IF LeadingDigits(s) = <<>> THEN NoMatch
    ELSE CoordAfter(LeadingDigits(s), SliceFrom(s, Len(LeadingDigits(s))))

\* Start and length of a patch from the groups of its header
CoordStart(c) ==
    IF c.length = << "0" >> THEN Atoi(c.start) ELSE Atoi(c.start) - 1

CoordLen(c) ==
    IF c.length = <<>> THEN 1
    ELSE IF c.length = << "0" >> THEN 0
    ELSE Atoi(c.length)

\* patchHeader ^@@ -(\d+),?(\d*) \+(\d+),?(\d*) @@$ on a line
HeaderSecond(c1, c2) ==
    IF c2.ok /\ c2.rest = << " ", "@", "@" >>
    THEN [ok |-> TRUE, Start1 |-> CoordStart(c1), Length1 |-> CoordLen(c1),
          Start2 |-> CoordStart(c2), Length2 |-> CoordLen(c2)]
    ELSE NoMatch

HeaderFirst(c1) ==
    IF c1.ok /\ HasPrefix(c1.rest, << " ", "+" >>)
    THEN HeaderSecond(c1, ParseCoords(SliceFrom(c1.rest, 2)))
    ELSE NoMatch

ParseHeader(line) ==
    IF HasPrefix(line, << "@", "@", " ", "-" >>)
    THEN HeaderFirst(ParseCoords(SliceFrom(line, 4)))
    ELSE NoMatch

\* strings.Replace(line, "+", "%2b", -1)
RECURSIVE PlusEscaped(_)
PlusEscaped(line) ==
    IF line = <<>> THEN <<>>
    ELSE IF Head(line) = "+" THEN << "%", "2", "b" >> \o PlusEscaped(Tail(line))
    ELSE << Head(line) >> \o PlusEscaped(Tail(line))

\* url.QueryUnescape: %XX becomes its character; the library drops the error
\* of an invalid escape and goes on with the empty string
IsHex(ch) ==
    IsDigit(ch) \/ ch \in { "A", "B", "C", "D", "E", "F", "a", "b", "c", "d", "e", "f" }

Upper(ch) ==
    IF ch = "a" THEN "A" ELSE IF ch = "b" THEN "B" ELSE IF ch = "c" THEN "C"
    ELSE IF ch = "d" THEN "D" ELSE IF ch = "e" THEN "E" ELSE IF ch = "f" THEN "F"
    ELSE ch

Unescapable == Escaped \cup { << "+", "2", "B" >> }

Unhex(h1, h2) ==
    IF \E e \in Unescapable : e[2] = Upper(h1) /\ e[3] = Upper(h2)
    THEN (CHOOSE e \in Unescapable : e[2] = Upper(h1) /\ e[3] = Upper(h2))[1]
    ELSE "?"

ValidEscapes(line) ==
    \A i \in 1..Len(line) :
        line[i] = "%" => (i + 2 <= Len(line) /\ IsHex(line[i + 1]) /\ IsHex(line[i + 2]))

RECURSIVE UnescapeValid(_)
UnescapeValid(line) ==
    IF line = <<>> THEN <<>>
    ELSE IF Head(line) = "%"
    THEN << Unhex(line[2], line[3]) >> \o UnescapeValid(SliceFrom(line, 3))
    ELSE << Head(line) >> \o UnescapeValid(Tail(line))

QueryUnescape(line) == IF ValidEscapes(line) THEN UnescapeValid(line) ELSE <<>>

\* The lines of one patch after its header, from text[p] (from 1): s is
\* (patch, p, err)
RECURSIVE BodyLoop(_, _)
BodyLine(text, s, sign, line) ==
    IF sign = "-"
    THEN BodyLoop(text, [s EXCEPT !.patch.diffs = Append(@, Diff(DiffDelete, line)),
                                  !.p = @ + 1])
    ELSE IF sign = "+"
    THEN BodyLoop(text, [s EXCEPT !.patch.diffs = Append(@, Diff(DiffInsert, line)),
                                  !.p = @ + 1])
    ELSE IF sign = " "
    THEN BodyLoop(text, [s EXCEPT !.patch.diffs = Append(@, Diff(DiffEqual, line)),
                                  !.p = @ + 1])
    ELSE IF sign = "@" THEN s
    ELSE [s EXCEPT !.err = "Invalid patch mode"]

BodyLoop(text, s) ==
    IF s.p > Len(text) THEN s
    ELSE IF text[s.p] = <<>> THEN BodyLoop(text, [s EXCEPT !.p = @ + 1])
    ELSE BodyLine(text, s, Head(text[s.p]), QueryUnescape(PlusEscaped(Tail(text[s.p]))))

\* The patches of the lines from text[p]: (patches, err)
RECURSIVE PatchesLoop(_, _, _)
PatchesNext(text, patches, s) ==
    IF s.err # "nil" THEN [patches |-> patches, err |-> s.err]
    ELSE PatchesLoop(text, s.p, Append(patches, s.patch))

PatchesHeader(text, p, patches, h) ==
    IF ~h.ok THEN [patches |-> patches, err |-> "Invalid patch string"]
    ELSE PatchesNext(text, patches,
                     BodyLoop(text, [patch |-> [diffs |-> <<>>,
                                                Start1 |-> h.Start1, Start2 |-> h.Start2,
                                                Length1 |-> h.Length1, Length2 |-> h.Length2],
                                     p |-> p + 1, err |-> "nil"]))

PatchesLoop(text, p, patches) ==
    IF p > Len(text) THEN [patches |-> patches, err |-> "nil"]
    ELSE PatchesHeader(text, p, patches, ParseHeader(text[p]))

\* PatchFromText: (patches, err)
PatchFromText(textline) ==
    IF Len(textline) = 0 THEN [patches |-> <<>>, err |-> "nil"]
    ELSE PatchesLoop(SplitLines(textline), 1, <<>>)

\* ---- PatchApply ----
\* nullPadding: the characters \x01 .. \x04
NullPadding == << "\\x01", "\\x02", "\\x03", "\\x04" >>

ShiftPatch(patch, by) == [patch EXCEPT !.Start1 = @ + by, !.Start2 = @ + by]

\* Padding on the start of the first patch
PadFirst(patch) ==
    IF patch.diffs = <<>> \/ patch.diffs[1].Type # DiffEqual
    THEN [patch EXCEPT !.diffs = << Diff(DiffEqual, NullPadding) >> \o @,
                       !.Start1 = @ - PatchMargin, !.Start2 = @ - PatchMargin,
                       !.Length1 = @ + PatchMargin, !.Length2 = @ + PatchMargin]
    ELSE IF PatchMargin > Len(patch.diffs[1].Text)
    THEN [patch EXCEPT !.diffs[1].Text = SliceFrom(NullPadding, Len(@)) \o @,
                       !.Start1 = @ - (PatchMargin - Len(patch.diffs[1].Text)),
                       !.Start2 = @ - (PatchMargin - Len(patch.diffs[1].Text)),
                       !.Length1 = @ + (PatchMargin - Len(patch.diffs[1].Text)),
                       !.Length2 = @ + (PatchMargin - Len(patch.diffs[1].Text))]
    ELSE patch

\* Padding on the end of the last patch
PadLast(patch) ==
    IF patch.diffs = <<>> \/ patch.diffs[Len(patch.diffs)].Type # DiffEqual
    THEN [patch EXCEPT !.diffs = @ \o << Diff(DiffEqual, NullPadding) >>,
                       !.Length1 = @ + PatchMargin, !.Length2 = @ + PatchMargin]
    ELSE IF PatchMargin > Len(patch.diffs[Len(patch.diffs)].Text)
    THEN [patch EXCEPT
            !.diffs[Len(patch.diffs)].Text = @ \o SliceTo(NullPadding, PatchMargin - Len(@)),
            !.Length1 = @ + (PatchMargin - Len(patch.diffs[Len(patch.diffs)].Text)),
            !.Length2 = @ + (PatchMargin - Len(patch.diffs[Len(patch.diffs)].Text))]
    ELSE patch

PadEnds(patches) ==
    [i \in 1..Len(patches) |->
        IF i = Len(patches) THEN PadLast(patches[i]) ELSE patches[i]]

\* PatchAddPadding: the patches it leaves behind
PatchAddPadding(patches) ==
    PadEnds([i \in 1..Len(patches) |->
                IF i = 1 THEN PadFirst(ShiftPatch(patches[i], PatchMargin))
                ELSE ShiftPatch(patches[i], PatchMargin)])

\* The edits of the patch are placed into text at startLoc through the
\* diffs between the patch's text1 and the text found there; index1 is the
\* position in text1
RECURSIVE ImperfectLoop(_, _, _, _, _, _)
ImperfectEdit(text, startLoc, diffs, d, index1) ==
    IF d.Type = DiffInsert
    THEN SliceTo(text, startLoc + DiffXIndex(diffs, index1)) \o d.Text
         \o SliceFrom(text, startLoc + DiffXIndex(diffs, index1))
    ELSE IF d.Type = DiffDelete
    THEN SliceTo(text, startLoc + DiffXIndex(diffs, index1))
         \o SliceFrom(text, startLoc + DiffXIndex(diffs, index1 + Len(d.Text)))
    ELSE text

ImperfectLoop(text, startLoc, diffs, patchDiffs, i, index1) ==
    IF i > Len(patchDiffs) THEN text
    ELSE ImperfectLoop(ImperfectEdit(text, startLoc, diffs, patchDiffs[i], index1),
                       startLoc, diffs, patchDiffs, i + 1, index1 + Len2(patchDiffs[i]))

\* The match is imperfect: diffs are those between text1 and text2
ApplyImperfect(s, patch, startLoc, text1, diffs) ==
    IF Len(text1) > MatchMaxBits /\ 2 * DiffLevenshtein(diffs) > Len(text1)
    THEN [s EXCEPT !.results = SliceTo(@, Len(@) - 1) \o << FALSE >>]
    ELSE [s EXCEPT !.text = ImperfectLoop(@, startLoc, DiffCleanupSemanticLossless(diffs),
                                          patch.diffs, 1, 0)]

\* The patch was found at startLoc, where the text reads text2
ApplyFound(s, patch, startLoc, text1, text2) ==
    IF text1 = text2
    THEN [s EXCEPT !.text = SliceTo(@, startLoc) \o DiffText2(patch.diffs)
                            \o SliceFrom(@, startLoc + Len(text1))]
    ELSE ApplyImperfect(s, patch, startLoc, text1, DiffMain(text1, text2))

\* One patch of the loop of PatchApply: s is (text, delta, results)
ApplyAt(s, patch, expectedLoc, text1, startLoc) ==
    IF startLoc = -1
    THEN [s EXCEPT !.results = Append(@, FALSE),
                   !.delta = @ - (patch.Length2 - patch.Length1)]
    ELSE ApplyFound([s EXCEPT !.results = Append(@, TRUE),
                              !.delta = startLoc - expectedLoc],
                    patch, startLoc, text1,
                    Slice(s.text, startLoc, Min(startLoc + Len(text1), Len(s.text))))

ApplyMatch(s, patch, expectedLoc, text1) ==
    ApplyAt(s, patch, expectedLoc, text1, MatchMain(s.text, text1, expectedLoc))

ApplyOne(s, patch) ==
    ApplyMatch(s, patch, patch.Start2 + s.delta, DiffText1(patch.diffs))

RECURSIVE ApplyLoop(_, _, _)
ApplyLoop(patches, i, s) ==
    IF i > Len(patches) THEN s
    ELSE ApplyLoop(patches, i + 1, ApplyOne(s, patches[i]))

\* The padding is taken off again
ApplyEnd(s) ==
    [text |-> Slice(s.text, Len(NullPadding), Len(s.text) - Len(NullPadding)),
     results |-> s.results]

\* PatchApply: (text, results).  No patch of the model is longer than
\* MatchMaxBits, so PatchSplitMax leaves the patches as they are.
PatchApply(patches, text) ==
    IF patches = <<>> THEN [text |-> text, results |-> <<>>]
    ELSE ApplyEnd(ApplyLoop(PatchAddPadding(patches), 1,
                            [text |-> NullPadding \o text \o NullPadding,
                             delta |-> 0, results |-> <<>>]))

-----------------------------------------------------------------------------
\* The patch tools (src/internal/assistant/gemini.go) and
\* NativeBackend.ApplyPatch (src/unnamed/part_001)

\* MakePatchTool.Execute: (output, err)
MakePatchResult(patchText) ==
    IF TrimSpace(patchText) = <<>>
    THEN [output |-> <<>>, err |-> "no changes detected"]
    ELSE [output |-> patchText, err |-> "nil"]

MakePatchExecute(orig, modif) ==
    MakePatchResult(PatchToText(PatchMake(orig, DiffMain(orig, modif))))

\* The marker of a code block and the markers of a hunk header
Fence == << Backtick, Backtick, Backtick >>
HunkMark == << "@", "@" >>

\* The loop that removes markdown code blocks: a line that starts with the
\* fence flips inBlock and is dropped, the other lines are kept while
\* inBlock is false
RECURSIVE StripLoop(_, _)
StripLoop(lines, inBlock) ==
    IF lines = <<>> THEN <<>>
    ELSE IF HasPrefix(TrimSpace(Head(lines)), Fence) THEN StripLoop(Tail(lines), ~inBlock)
    ELSE IF ~inBlock THEN << Head(lines) >> \o StripLoop(Tail(lines), inBlock)
    ELSE StripLoop(Tail(lines), inBlock)

StripCodeBlocks(patch) ==
    IF Contains(patch, Fence) THEN JoinLines(StripLoop(SplitLines(patch), FALSE))
    ELSE patch

\* The test for a decorative line
IsDecorative(line) ==
    \/ HasPrefix(TrimSpace(line), << "*", "*", "*" >>)
    \/ (HasPrefix(TrimSpace(line), << "-", "-", "-" >>) /\ ~Contains(line, HunkMark))
    \/ HasPrefix(TrimSpace(line), << "H", "e", "r", "e", " ", "i", "s" >>)
    \/ HasPrefix(TrimSpace(line), << "S", "h", "a", "l", "l", " ", "I" >>)

RECURSIVE FilterLines(_)
FilterLines(lines) ==
    IF lines = <<>> THEN <<>>
    ELSE IF IsDecorative(Head(lines)) THEN FilterLines(Tail(lines))
    ELSE << Head(lines) >> \o FilterLines(Tail(lines))

\* The patch after the cleanup of ApplyPatchTool.Execute
CleanPatch(patch) ==
    TrimSpace(JoinLines(FilterLines(SplitLines(StripCodeBlocks(patch)))))

\* The main configuration file, where Detect looks for it
HyprlandConf == Join2(ConfigRoot, Conf(<<"hypr", "land">>))

\* NativeBackend.ListSources: (sources, err)
ListSources(cp) ==
    IF cp = <<>> THEN [sources |-> <<>>, err |-> "config path not detected"]
    ELSE [sources |-> << cp >>, err |-> "nil"]

\* The target file: a.Path, or the first listed source
TargetOf(path, ls) ==
    IF path # <<>> THEN [path |-> path, err |-> "nil"]
    ELSE IF ls.err # "nil" \/ Len(ls.sources) = 0
    THEN [path |-> <<>>, err |-> "could not determine target file"]
    ELSE [path |-> ls.sources[1], err |-> "nil"]

\* ApplyPatchTool.Execute before it reads the file: the error it returns,
\* or "nil" with the cleaned patch and the target path
Refused(err) == [err |-> err, patch |-> <<>>, targetPath |-> <<>>]

\* A prelude that does not ask the gate
PreludeUngated(clean, targetPath, g) ==
    [err |-> "nil", patch |-> clean, targetPath |-> targetPath]

PreludeGate(clean, targetPath, g) ==
    IF g.err # "nil" \/ ~g.allowed THEN Refused("write access denied")
    ELSE [err |-> "nil", patch |-> clean, targetPath |-> targetPath]

PreludeTarget(c, bt, clean, target) ==
    IF target.err # "nil" THEN Refused(target.err)
    ELSE PreludeGate(clean, target.path, IsPathAllowed(c, bt, target.path))

\* A prelude without the test for the hunk markers
PreludeUnvalidated(c, bt, cp, path, clean) ==
    PreludeTarget(c, bt, clean, TargetOf(path, ListSources(cp)))

PreludeClean(c, bt, cp, path, clean) ==
    IF ~Contains(clean, HunkMark) THEN Refused("invalid patch format")
    ELSE PreludeTarget(c, bt, clean, TargetOf(path, ListSources(cp)))

\* Arguments of a patch call that json.Unmarshal rejects
BadArgs == [path |-> BadJSON, patch |-> BadJSON]

ApplyPatchPrelude(c, bt, cp, args) ==
    IF args = BadArgs THEN Refused("invalid arguments")
    ELSE PreludeClean(c, bt, cp, args.path, CleanPatch(args.patch))

\* A count of the failed hunks that finds none
NoFailedPatches(applied) == {}

\* failedPatches: the hunks whose result is false
FailedPatches(applied) == { i \in 1..Len(applied) : ~applied[i] }

\* NativeBackend.ApplyPatch up to the write: the error it returns, or "nil"
\* with the new text; readable is whether os.ReadFile succeeds
BackendChecked(r) ==
    IF \E i \in 1..Len(r.results) : ~r.results[i]
    THEN [err |-> "some patches failed to apply", newText |-> <<>>, results |-> r.results]
    ELSE [err |-> "nil", newText |-> r.text, results |-> r.results]

BackendParsed(parsed, content) ==
    IF parsed.err # "nil"
    THEN [err |-> "failed to parse patch", newText |-> <<>>, results |-> <<>>]
    ELSE BackendChecked(PatchApply(parsed.patches, content))

BackendApplyPatch(cp, path, patchText, content, readable) ==
    IF path = <<>> /\ cp = <<>>
    THEN [err |-> "config path not set", newText |-> <<>>, results |-> <<>>]
    ELSE IF ~readable
    THEN [err |-> "failed to read config file", newText |-> <<>>, results |-> <<>>]
    ELSE BackendParsed(PatchFromText(patchText), content)

\* A patch made against another state of the file: its first hunk inserts
\* at the start of the file, its second hunk changes text the file does not
\* have
StaleHunks ==
    << [diffs |-> << Diff(DiffInsert, << "a" >>) >>,
        Start1 |-> 0, Start2 |-> 0, Length1 |-> 0, Length2 |-> 1],
       [diffs |-> << Diff(DiffEqual, << "c", "c", "c", "c" >>),
                     Diff(DiffDelete, << "c" >>),
                     Diff(DiffEqual, << "c", "c", "c", "c" >>) >>,
        Start1 |-> 8, Start2 |-> 9, Length1 |-> 9, Length2 |-> 8] >>

StalePatch == PatchToText(StaleHunks)

\* The same patch as a model may send it: after a sentence and inside a
\* code block
Wrapped(p) ==
    << "H", "e", "r", "e", " ", "i", "s", NL >> \o Fence \o << NL >>
    \o p \o Fence

WrappedPatch == Wrapped(StalePatch)

\* A patch with a broken hunk header
MalformedPatch == HunkMark \o << " ", "-", "a", " ", "+", "a", " " >> \o HunkMark

CraftedPatches == { StalePatch, WrappedPatch, MalformedPatch }

\* No make_patch call was made
NotMade == [output |-> <<>>, err |-> "not called"]

NoArgs == [path |-> <<>>, patch |-> <<>>]

\* No apply_patch call is in progress. confirmed tells whether the call has
\* consulted ApplyPatchTool.Confirm and got true: Execute has no call of it
NoCall ==
    [pc |-> "idle", args |-> NoArgs, patch |-> <<>>, targetPath |-> <<>>,
     before |-> <<>>, originalContent |-> <<>>, snapshotted |-> FALSE,
     newContent |-> <<>>, results |-> <<>>, confirmed |-> FALSE]

\* The id CreateSnapshot returned for the n-th snapshot directory
SnapshotID(n) == << "snapshot", n >>

\* No snapshot_id argument
NoSnapshotID == << >>

BadRollbackArgs == [snapshot_id |-> BadJSON]

\* RollbackTool.Execute(args): it asks for an id when there is none, and
\* otherwise tells the user to restore by hand
RollbackExecute(args) ==
    IF args = BadRollbackArgs THEN [output |-> "", err |-> "invalid arguments"]
    ELSE IF args.snapshot_id = NoSnapshotID
    THEN [output |-> "Error: Snapshot ID required", err |-> "nil"]
    ELSE [output |-> "Rollback not fully implemented", err |-> "nil"]

\* The snapshot directories whose name is id
SnapshotDirs(snaps, id) == { n \in 1..Len(snaps) : SnapshotID(n) = id }

\* SnapshotService.Restore(id, targetFiles) up to copyFile: the content it
\* copies back to the main configuration file
Restore(snaps, id) ==
    IF SnapshotDirs(snaps, id) = {}
    THEN [err |-> "snapshot not found", content |-> << >>]
    ELSE [err |-> "nil", content |-> snaps[CHOOSE n \in SnapshotDirs(snaps, id) : TRUE]]

\* The patch tools' variables while another specification runs
PatchIdle ==
    /\ original = <<>>
    /\ modified = <<>>
    /\ made = NotMade
    /\ file = <<>>
    /\ snapshot = "nil"
    /\ configPath = <<>>
    /\ snapshots = <<>>
    /\ ap = NoCall
    /\ calls = <<>>
    /\ rolled = <<>>

-----------------------------------------------------------------------------
\* Detection of the installation variant. A probe of the file system is
\* answered with "ok" (err == nil), "notexist" (os.IsNotExist(err)) or
\* "error" (any other error)
StatOutcomes == { "ok", "notexist", "error" }

\* home: os.UserHomeDir succeeds; env: HYDE_CONFIG_HOME is set; the other
\* fields are os.Stat of the entry of that name in ~/.config/hypr
Layouts ==
    [home : BOOLEAN, env : BOOLEAN, hydeConf : StatOutcomes, Configs : StatOutcomes,
     scripts : StatOutcomes, omarchy : StatOutcomes, hyprlandConf : StatOutcomes]

IsNotExist(stat) == stat = "notexist"

\* A Detect that finds nothing, whatever the layout
NeverDetects(l, cp) == [found |-> FALSE, err |-> "nil", configPath |-> cp]

\* The return of Detect("") when os.UserHomeDir fails
NoHome(cp) == [found |-> FALSE, err |-> "no home directory", configPath |-> cp]

\* Detect found the variant and set ConfigPath
Found == [found |-> TRUE, err |-> "nil", configPath |-> HyprlandConf]

\* NativeBackend.Detect(""): (found, err) and the backend's ConfigPath after
NativeDetect(l, cp) ==
    IF ~l.home THEN NoHome(cp)
    ELSE IF l.hyprlandConf = "ok" THEN Found
    ELSE [found |-> FALSE, err |-> "nil", configPath |-> cp]

\* HyDEBackend.Detect("")
HyDEDetect(l, cp) ==
    IF ~l.home THEN NoHome(cp)
    ELSE IF l.env THEN Found
    ELSE IF l.hydeConf = "ok" THEN Found
    ELSE IF ~IsNotExist(l.Configs) \/ ~IsNotExist(l.scripts) THEN Found
    ELSE [found |-> FALSE, err |-> "nil", configPath |-> cp]

\* OmarchyBackend.Detect("")
OmarchyDetect(l, cp) ==
    IF ~l.home THEN NoHome(cp)
    ELSE IF IsNotExist(l.omarchy) THEN [found |-> FALSE, err |-> "nil", configPath |-> cp]
    ELSE IF l.hyprlandConf = "ok" THEN Found
    ELSE [found |-> FALSE, err |-> "nil", configPath |-> cp]

\* b.Detect("") of the backend whose Type() is b
Detect(b, l, cp) ==
    CASE b = SourceHyDE    -> HyDEDetect(l, cp)
      [] b = SourceNative  -> NativeDetect(l, cp)
      [] b = SourceOmarchy -> OmarchyDetect(l, cp)

\* backends := []configuration.ConfigBackend{hydeBackend, nativeBackend,
\* omarchyBackend}
Backends == << SourceHyDE, SourceNative, SourceOmarchy >>

\* The index of the first backend from i on whose Detect finds its variant,
\* 0 when there is none; a Detect that returns an error finds nothing
RECURSIVE FirstFound(_, _, _)
FirstFound(l, cps, i) ==
    IF i > Len(Backends) THEN 0
    ELSE IF Detect(Backends[i], l, cps[Backends[i]]).found THEN i
    ELSE FirstFound(l, cps, i + 1)

\* The ConfigPath fields after the loop that stopped at backend i
ProbedPaths(l, cps, i) ==
    IF i = 0 THEN cps
    ELSE [cps EXCEPT ![Backends[i]] = Detect(Backends[i], l, cps[Backends[i]]).configPath]

\* var activeBackend configuration.ConfigBackend = nativeBackend // Default
ActiveBackend(i) == IF i = 0 THEN SourceNative ELSE Backends[i]

\* DetectRootTool.Execute: the type and the sources of its output
DetectRootExecute(l, cps, i) ==
    IF i = 0 THEN [type |-> "unknown", sources |-> << >>]
    ELSE [type |-> Backends[i],
          sources |-> ListSources(ProbedPaths(l, cps, i)[Backends[i]]).sources]

NotDetected == [type |-> "not called", sources |-> << >>]

\* The detection variables while another specification runs
DetectIdle ==
    /\ layout = [home |-> TRUE, env |-> FALSE, hydeConf |-> "notexist",
                 Configs |-> "notexist", scripts |-> "notexist",
                 omarchy |-> "notexist", hyprlandConf |-> "notexist"]
    /\ confPaths = [b \in BackendTypes |-> << >>]
    /\ active = SourceNative
    /\ detected = NotDetected
    /\ detectPc = "idle"

\* A test that lets Enter start a call in every state
UIReadyAlways(s) == TRUE

\* m.state == StateReady
UIReady(s) == s = "Ready"

\* No Chat call of the OpenAI adapter
ChatIdle == oa = [pc |-> "idle"]

\* No turn with concurrent patch calls
TurnIdle ==
    /\ clock = 0
    /\ disk = <<>>
    /\ backups = <<>>
    /\ co = <<>>

\* The UI's variables while another specification runs
UIIdle ==
    /\ uiState = "Ready"
    /\ listeners = 0
    /\ overlapped = FALSE

-----------------------------------------------------------------------------
\* State after NewAgent
Init ==
    /\ adapter \in Adapters
    /\ shape \in Shapes
    /\ history = <<>>
    /\ pc = "new"
    /\ turn = 0
    /\ results = <<>>
    /\ running = {}
    /\ ctx = "live"
    /\ ret = [text |-> "", err |-> "none"]
    /\ chatCalls = 0
    /\ outOfOrder = FALSE
    /\ cancelledInFlight = FALSE
    /\ inputs = 1
    /\ agentMaxTurns = DefaultMaxTurns
    /\ updates = 0
    /\ dropped = FALSE
    /\ GateIdle
    /\ ParseIdle
    /\ PatchIdle
    /\ DetectIdle
    /\ UIIdle
    /\ ChatIdle
    /\ TurnIdle

\* The user sends a further message after the loop-limit text
NextMessage ==
    /\ pc = "returned"
    /\ ret = [text |-> LoopLimitText, err |-> "nil"]
    /\ UserMessages(history) < inputs

\* ProcessMessage up to the first iteration of the loop: what it does to
\* the Agent and to the variables of the call
StartsCall ==
    /\ history' = history
                  \o (IF SystemPromptDue(history)
                      THEN <<Message(RoleSystem, SystemPrompt, "", <<>>, "")>>
                      ELSE <<>>)
                  \o <<Message(RoleUser, "input", "", <<>>, "")>>
    /\ pc' = "chat"
    /\ turn' = 0
    /\ ctx' = "live"
    /\ chatCalls' = 0
    /\ ret' = [text |-> "", err |-> "none"]
    /\ results' = <<>>
    /\ running' = {}
    /\ outOfOrder' = FALSE
    /\ cancelledInFlight' = FALSE
    /\ Sends(1)

\* A caller calls ProcessMessage
ProcessMessage ==
    /\ pc = "new" \/ NextMessage
    /\ StartsCall
    /\ UNCHANGED <<agentMaxTurns, inputs>>
    /\ UNCHANGED <<adapter, shape>>
    /\ UNCHANGED <<gateVars, parseVars, patchVars, detectVars, uiVars, chatVars, turnVars>>

\* The caller's deadline passes or the caller cancels while ProcessMessage runs
CtxDone ==
    /\ pc \in {"chat", "fanout"}
    /\ ctx = "live"
    /\ ctx' \in {"deadline", "cancelled"}
    /\ cancelledInFlight' = (pc = "fanout" /\ running # {})
    /\ UNCHANGED <<updates, dropped>>
    /\ UNCHANGED <<agentMaxTurns, inputs>>
    /\ UNCHANGED <<adapter, shape, history, pc, turn, results, running, ret,
                   chatCalls, outOfOrder>>
    /\ UNCHANGED <<gateVars, parseVars, patchVars, detectVars, uiVars, chatVars, turnVars>>

\* for i := 0; i < maxTurns; i++ fails its test: the loop limit is reached
LoopLimit ==
    /\ pc = "chat"
    /\ ~LoopContinues(turn)
    /\ pc' = "returned"
    /\ ret' = [text |-> LoopLimitText, err |-> "nil"]
    /\ Sends(1)
    /\ UNCHANGED <<agentMaxTurns, inputs, cancelledInFlight>>
    /\ UNCHANGED <<adapter, shape, history, turn, results, running, ctx,
                   chatCalls, outOfOrder>>
    /\ UNCHANGED <<gateVars, parseVars, patchVars, detectVars, uiVars, chatVars, turnVars>>

\* provider.Chat returns an error
ChatFails ==
    /\ pc = "chat"
    /\ LoopContinues(turn)
    /\ chatCalls' = chatCalls + 1
    /\ pc' = "returned"
    /\ ret' = [text |-> "", err |-> ChatError(ctx)]
    /\ history' = HistoryAfterChatError(history)
    /\ Sends(2)
    /\ UNCHANGED <<agentMaxTurns, inputs, cancelledInFlight>>
    /\ UNCHANGED <<adapter, shape, turn, results, running, ctx, outOfOrder>>
    /\ UNCHANGED <<gateVars, parseVars, patchVars, detectVars, uiVars, chatVars, turnVars>>

\* provider.Chat returns a response without tool calls
ChatFinal ==
    /\ pc = "chat"
    /\ LoopContinues(turn)
    /\ ctx = "live"
    /\ AdapterSends(adapter, history)
    /\ chatCalls' = chatCalls + 1
    /\ history' = Append(history, Message(RoleAssistant, "final answer", "", <<>>, ""))
    /\ pc' = "returned"
    /\ ret' = ReturnsContent(Message(RoleAssistant, "final answer", "", <<>>, ""))
    /\ Sends(2)
    /\ UNCHANGED <<agentMaxTurns, inputs, cancelledInFlight>>
    /\ UNCHANGED <<adapter, shape, turn, results, running, ctx, outOfOrder>>
    /\ UNCHANGED <<gateVars, parseVars, patchVars, detectVars, uiVars, chatVars, turnVars>>

\* provider.Chat returns a response with tool calls; the goroutines start
ChatToolCalls ==
    /\ pc = "chat"
    /\ LoopContinues(turn)
    /\ ctx = "live"
    /\ AdapterSends(adapter, history)
    /\ chatCalls' = chatCalls + 1
    /\ LET tcs == ParseToolCalls(adapter, shape)
       IN  /\ history' = Append(history, Message(RoleAssistant, "", "", tcs, ""))
           /\ results' = [k \in 1..Len(tcs) |-> Null]
           /\ running' = 1..Len(tcs)
    /\ pc' = "fanout"
    /\ outOfOrder' = FALSE
    /\ Sends(1)
    /\ UNCHANGED <<agentMaxTurns, inputs, cancelledInFlight>>
    /\ UNCHANGED <<adapter, shape, turn, ctx, ret>>
    /\ UNCHANGED <<gateVars, parseVars, patchVars, detectVars, uiVars, chatVars, turnVars>>

\* One goroutine runs to its end and writes its slot
ToolFinish(k) ==
    /\ pc = "fanout"
    /\ k \in running
    /\ LET tcs == history[Len(history)].toolCalls
       IN  results' = [results EXCEPT ![ResultSlot(k, results)] = ToolResult(tcs[k])]
    /\ running' = running \ {k}
    /\ outOfOrder' = (outOfOrder \/ \E j \in running : j < k)
    /\ Sends(ToolUpdates(history[Len(history)].toolCalls[k]))
    /\ UNCHANGED <<agentMaxTurns, inputs, cancelledInFlight>>
    /\ UNCHANGED <<adapter, shape, history, pc, turn, ctx, ret, chatCalls>>
    /\ UNCHANGED <<gateVars, parseVars, patchVars, detectVars, uiVars, chatVars, turnVars>>

\* wg.Wait() returns; the results are appended and the loop goes on
AppendResults ==
    /\ pc = "fanout"
    /\ WaitReturns(running)
    /\ history' = history \o results
    /\ turn' = turn + 1
    /\ pc' = "chat"
    /\ UNCHANGED <<updates, dropped>>
    /\ UNCHANGED <<agentMaxTurns, inputs, cancelledInFlight>>
    /\ UNCHANGED <<adapter, shape, results, running, ctx, ret, chatCalls,
                   outOfOrder>>
    /\ UNCHANGED <<gateVars, parseVars, patchVars, detectVars, uiVars, chatVars, turnVars>>

Next ==
    \/ ProcessMessage
    \/ CtxDone
    \/ LoopLimit
    \/ ChatFails
    \/ ChatFinal
    \/ ChatToolCalls
    \/ \E k \in 1..MaxCalls : ToolFinish(k)
    \/ AppendResults

Spec == Init /\ [][Next]_vars

\* Tools terminate and the provider answers or fails: every step that is
\* enabled is eventually taken.
FairSpec == Spec /\ WF_vars(Next)

\* A session of several messages under a max_turns setting, with a model
\* that asks for one tool call at a time
InitSession ==
    /\ adapter \in Adapters
    /\ shape \in { s \in Shapes : Len(s) = 1 }
    /\ history = <<>>
    /\ pc = "new"
    /\ turn = 0
    /\ results = <<>>
    /\ running = {}
    /\ ctx = "live"
    /\ ret = [text |-> "", err |-> "none"]
    /\ chatCalls = 0
    /\ outOfOrder = FALSE
    /\ cancelledInFlight = FALSE
    /\ inputs \in 1..MaxMessages
    /\ agentMaxTurns \in MaxTurnsSettings
    /\ updates = 0
    /\ dropped = FALSE
    /\ GateIdle
    /\ ParseIdle
    /\ PatchIdle
    /\ DetectIdle
    /\ UIIdle
    /\ ChatIdle
    /\ TurnIdle

SpecSession == InitSession /\ [][Next]_vars

-----------------------------------------------------------------------------
\* The terminal UI: the user types messages, the UI runs ProcessMessage as a
\* command and listens for status updates; the model asks for one tool call
\* at a time
InitUI ==
    /\ adapter \in Adapters
    /\ shape \in { s \in Shapes : Len(s) = 1 }
    /\ history = <<>>
    /\ pc = "new"
    /\ turn = 0
    /\ results = <<>>
    /\ running = {}
    /\ ctx = "live"
    /\ ret = [text |-> "", err |-> "none"]
    /\ chatCalls = 0
    /\ outOfOrder = FALSE
    /\ cancelledInFlight = FALSE
    /\ inputs \in 1..MaxMessages
    /\ agentMaxTurns = DefaultMaxTurns
    /\ updates = 0
    /\ dropped = FALSE
    /\ uiState = "Ready"
    /\ listeners = 0
    /\ overlapped = FALSE
    /\ GateIdle
    /\ ParseIdle
    /\ PatchIdle
    /\ DetectIdle
    /\ ChatIdle
    /\ TurnIdle

\* A ProcessMessage call is running
InFlight == pc \in { "chat", "fanout" }

\* The user presses Enter on a message: at the start, after the loop-limit
\* text, or while a call is running
EnterDue ==
    \/ pc = "new"
    \/ NextMessage
    \/ InFlight /\ UserMessages(history) < inputs

\* A second ProcessMessage call on the Agent while one is running: it
\* appends its user message to the same history
StartsOverlappingCall ==
    /\ history' = Append(history, Message(RoleUser, "input", "", <<>>, ""))
    /\ Sends(1)
    /\ UNCHANGED <<pc, turn, ctx, chatCalls, ret, results, running, outOfOrder,
                   cancelledInFlight>>

\* Update(tea.KeyMsg) with KeyEnter: in StateReady it goes to StateThinking
\* and returns the commands listenForUpdates and processInput
KeyEnter ==
    /\ EnterDue
    /\ UIReady(uiState)
    /\ uiState' = "Thinking"
    /\ listeners' = listeners + 1
    /\ overlapped' = (overlapped \/ InFlight)
    /\ IF InFlight THEN StartsOverlappingCall ELSE StartsCall
    /\ UNCHANGED <<agentMaxTurns, inputs>>
    /\ UNCHANGED <<adapter, shape>>
    /\ UNCHANGED <<gateVars, parseVars, patchVars, detectVars, chatVars, turnVars>>

\* processInput returns the agentMsg of the call and Update goes to StateReady
AgentMsg ==
    /\ pc = "returned"
    /\ uiState = "Thinking"
    /\ uiState' = "Ready"
    /\ UNCHANGED <<listeners, overlapped>>
    /\ UNCHANGED <<agentVars, gateVars, parseVars, patchVars, detectVars, chatVars, turnVars>>

\* listenForUpdates receives an update; Update(statusMsg) listens again
\* while in StateThinking
Receive ==
    /\ listeners > 0
    /\ updates > 0
    /\ updates' = updates - 1
    /\ listeners' = (IF uiState = "Thinking" THEN listeners ELSE listeners - 1)
    /\ UNCHANGED <<uiState, overlapped>>
    /\ UNCHANGED <<adapter, shape, history, pc, turn, results, running, ctx, ret,
                   chatCalls, outOfOrder, cancelledInFlight, inputs, agentMaxTurns,
                   dropped>>
    /\ UNCHANGED <<gateVars, parseVars, patchVars, detectVars, chatVars, turnVars>>

\* The steps of the goroutine that runs ProcessMessage and of its tool calls
CallSteps ==
    \/ LoopLimit
    \/ ChatFails
    \/ ChatFinal
    \/ ChatToolCalls
    \/ \E k \in 1..MaxCalls : ToolFinish(k)
    \/ AppendResults

NextUI ==
    \/ KeyEnter
    \/ AgentMsg
    \/ Receive
    \/ CtxDone
    \/ CallSteps

SpecUI == InitUI /\ [][NextUI]_vars

\* One message
InitOneCall == InitUI /\ inputs = 1

\* The goroutines are scheduled; the consumer of the updates may be slow or
\* never receive
FairUI == InitOneCall /\ [][NextUI]_vars /\ WF_vars(CallSteps)

-----------------------------------------------------------------------------
\* C1: one ProcessMessage call makes at most maxTurns (25) provider.Chat
\* calls and then returns a final text, an error or the loop-limit text,
\* whatever the provider answers (also tool calls on every response).
C1_TerminatesWithinMaxTurns ==
    /\ [](chatCalls <= maxTurns)
    /\ <>(pc = "returned")
    /\ [](pc = "returned" =>
            \/ ret.err = "nil" /\ ret.text \in {"final answer", LoopLimitText}
            \/ ret.err \in {"timeout", "cancelled", "provider error"} /\ ret.text = "")

\* The provider answered all 25 calls with tool calls and the call returned
C1_Witness ==
    /\ pc = "returned"
    /\ chatCalls = maxTurns
    /\ ret = [text |-> LoopLimitText, err |-> "nil"]

\* The tool calls of the assistant message at position p of h
CallsAt(h, p) == IF h[p].role = RoleAssistant THEN h[p].toolCalls ELSE <<>>

\* The assistant messages with tool calls whose results have been appended
AnsweredTurns ==
    { p \in 1..Len(history) :
        /\ Len(CallsAt(history, p)) > 0
        /\ ~(pc = "fanout" /\ p = Len(history)) }

\* C2: the tool-role messages appended in a turn are in the order of the
\* tool calls of the assistant response: one result per call, the i-th
\* result carrying the id and the name of the i-th call, whatever order the
\* executions finished in.
C2_ResultsInCallOrder ==
    \A p \in AnsweredTurns :
        LET tcs == CallsAt(history, p)
        IN  /\ Len(history) >= p + Len(tcs)
            /\ \A j \in 1..Len(tcs) :
                   /\ history[p + j].role = RoleTool
                   /\ history[p + j].toolCallID = tcs[j].id
                   /\ history[p + j].name = tcs[j].name
            /\ Len(history) > p + Len(tcs) => history[p + Len(tcs) + 1].role # RoleTool

\* A later call finished before an earlier one and the results were appended
C2_Witness ==
    /\ outOfOrder
    /\ pc = "chat"
    /\ turn >= 1
    /\ AnsweredTurns # {}

\* The nearest assistant message before position q of h (0 if there is none)
PrecedingAssistant(h, q) ==
    LET before == { p \in 1..(q - 1) : h[p].role = RoleAssistant }
    IN  IF before = {} THEN 0 ELSE CHOOSE p \in before : \A r \in before : r <= p

\* C6: the ToolCallID of every tool-role message of History equals the id of
\* exactly one tool call of the nearest preceding assistant message.
C6_LinkageIdMatchesOneCall ==
    \A q \in 1..Len(history) :
        history[q].role = RoleTool =>
            LET p == PrecedingAssistant(history, q)
            IN  /\ p > 0
                /\ Cardinality({ j \in 1..Len(history[p].toolCalls) :
                                   history[p].toolCalls[j].id = history[q].toolCallID }) = 1

-----------------------------------------------------------------------------
\* Security Gate: a tool call with a path argument under a loaded Config
\* and an active backend
AgentIdle ==
    /\ adapter = "openai"
    /\ shape = <<>>
    /\ history = <<>>
    /\ pc = "off"
    /\ turn = 0
    /\ results = <<>>
    /\ running = {}
    /\ ctx = "live"
    /\ ret = [text |-> "", err |-> "none"]
    /\ chatCalls = 0
    /\ outOfOrder = FALSE
    /\ cancelledInFlight = FALSE
    /\ inputs = 1
    /\ agentMaxTurns = DefaultMaxTurns
    /\ updates = 0
    /\ dropped = FALSE

InitGate ==
    /\ AgentIdle
    /\ DetectIdle
    /\ UIIdle
    /\ ChatIdle
    /\ TurnIdle
    /\ cfg \in {"default", "custom"}
    /\ backendType \in BackendTypes
    /\ argPath \in TargetPaths \cup { BadJSON }
    /\ toolPc = "ready"
    /\ toolRet = [tool |-> "", output |-> "", err |-> "none"]
    /\ gate = NoGate
    /\ fsLog = <<>>
    /\ ParseIdle
    /\ PatchIdle

\* The tool's return value reaches the caller; the gate's answer and the
\* paths the tool handed to the os are recorded
ToolReturns(tool, r) ==
    /\ toolRet' = [tool |-> tool, output |-> r.output, err |-> r.err]
    /\ gate' = r.gate
    /\ fsLog' = fsLog \o r.opened

\* The model calls read_file
ReadFile ==
    /\ toolPc = "ready"
    /\ \E exists \in BOOLEAN :
         ToolReturns("read_file", ReadFileExecute(cfg, backendType, argPath, exists))
    /\ toolPc' = "done"
    /\ UNCHANGED <<cfg, backendType, argPath>>
    /\ UNCHANGED <<agentVars, parseVars, patchVars, detectVars, uiVars, chatVars, turnVars>>

\* The model calls list_dir
ListDir ==
    /\ toolPc = "ready"
    /\ \E exists \in BOOLEAN :
         ToolReturns("list_dir", ListDirExecute(cfg, backendType, argPath, exists))
    /\ toolPc' = "done"
    /\ UNCHANGED <<cfg, backendType, argPath>>
    /\ UNCHANGED <<agentVars, parseVars, patchVars, detectVars, uiVars, chatVars, turnVars>>

NextGate ==
    \/ ReadFile
    \/ ListDir

SpecGate == InitGate /\ [][NextGate]_vars

\* The location a target path names: its elements after it is rooted at the
\* configuration root (when relative) and "." and ".." are resolved
Location(targetPath) ==
    IF IsAbs(targetPath) THEN ElemsOf(targetPath)
    ELSE ElemsOf(ConfigRoot \o << Sep >> \o targetPath)

\* The location is neither the configuration root nor below it
OutsideRoot(targetPath) ==
    LET root == << << "u" >>, << "cfg" >>, << "hypr" >> >>
        loc  == Location(targetPath)
    IN  ~(Len(loc) >= Len(root) /\ SubSeq(loc, 1, Len(root)) = root)

\* C4: for every backend variant and every target path that normalizes to a
\* location outside the configuration root, IsPathAllowed denies, whatever
\* the allowed-files and allowed-directories lists contain.
C4_OutsideRootDenied ==
    (toolPc = "done" /\ gate # NoGate /\ OutsideRoot(argPath)) => ~gate.allowed

-----------------------------------------------------------------------------
\* Parse and re-serialize: a configuration file of up to MaxText characters
\* is parsed and the unmodified IR is written back to text
ConfigTexts == SeqsUpTo(ConfigChars, MaxText)

InitParse ==
    /\ AgentIdle
    /\ DetectIdle
    /\ UIIdle
    /\ ChatIdle
    /\ TurnIdle
    /\ GateIdle
    /\ PatchIdle
    /\ fileText \in ConfigTexts
    /\ ir = <<>>
    /\ irText = <<>>
    /\ parsePc = "start"

\* NativeBackend.Parse
DoParse ==
    /\ parsePc = "start"
    /\ ir' = Parse(fileText)
    /\ parsePc' = "parsed"
    /\ UNCHANGED <<fileText, irText>>
    /\ UNCHANGED <<agentVars, gateVars, patchVars, detectVars, uiVars, chatVars, turnVars>>

\* IR.String on the IR that Parse returned
DoString ==
    /\ parsePc = "parsed"
    /\ irText' = IRString(ir)
    /\ parsePc' = "serialized"
    /\ UNCHANGED <<fileText, ir>>
    /\ UNCHANGED <<agentVars, gateVars, patchVars, detectVars, uiVars, chatVars, turnVars>>

NextParse ==
    \/ DoParse
    \/ DoString

SpecParse == InitParse /\ [][NextParse]_vars

\* C7: round-trip law: for every input text, with or without a final line
\* terminator, parsing it and re-serializing the unmodified IR yields
\* exactly the input text.
C7_RoundTrip ==
    parsePc = "serialized" => irText = fileText

-----------------------------------------------------------------------------
\* The patch tools: the model asks make_patch for a patch from the content
\* of the configuration file to a modified text, and calls apply_patch
TextChars == { "a", "-", NL }

Texts == SeqsUpTo(TextChars, MaxLen)

InitPatch ==
    /\ AgentIdle
    /\ DetectIdle
    /\ UIIdle
    /\ ChatIdle
    /\ TurnIdle
    /\ GateIdle
    /\ ParseIdle
    /\ original \in Texts
    /\ modified \in Texts
    /\ made = NotMade
    /\ file = original
    /\ snapshot \in { "nil", "set" }
    /\ configPath \in { <<>>, HyprlandConf }
    /\ snapshots = <<>>
    /\ ap = NoCall
    /\ calls = <<>>
    /\ rolled = <<>>

\* The model calls make_patch with the file's content and the modified text
MakePatch ==
    /\ made = NotMade
    /\ made' = MakePatchExecute(original, modified)
    /\ UNCHANGED <<original, modified, file, snapshot, configPath, snapshots, ap, calls,
                 rolled>>
    /\ UNCHANGED <<agentVars, gateVars, parseVars, detectVars, uiVars, chatVars, turnVars>>

\* The path arguments of the calls: none, the main configuration file, and
\* a file outside the configuration root
PatchPaths == { <<>>, HyprlandConf, EtcPasswd }

\* What the model sends as the patch: the output of make_patch or a patch of
\* its own
PatchTexts ==
    (IF made.err = "nil" THEN { made.output } ELSE {}) \cup CraftedPatches

ApplyArgs ==
    { [path |-> p, patch |-> t] : p \in PatchPaths, t \in PatchTexts } \cup { BadArgs }

\* The first call is any call; the second call repeats a call that succeeded;
\* a rollback or restore is the last call
CallAllowed(tool, args) ==
    \/ calls = <<>>
    \/ /\ Len(calls) = 1
       /\ rolled = <<>>
       /\ calls[1].tool = tool
       /\ calls[1].err = "nil"
       /\ calls[1].args = args

\* A call returns err; the file held before at its start and holds after now
Returns(tool, args, err, before, after, snapshotted, wrote, applied) ==
    /\ calls' = Append(calls, [tool |-> tool, args |-> args, err |-> err,
                               before |-> before, after |-> after,
                               snapshotted |-> snapshotted, wrote |-> wrote,
                               results |-> applied])
    /\ ap' = NoCall

\* The call in progress returns err without a write
Aborts(err, applied) ==
    Returns("apply_patch", ap.args, err, ap.before, file, ap.snapshotted, FALSE, applied)

\* ApplyPatchTool.Execute up to os.ReadFile
Begins(args, r) ==
    IF r.err # "nil"
    THEN Returns("apply_patch", args, r.err, file, file, FALSE, FALSE, <<>>)
    ELSE /\ ap' = [NoCall EXCEPT !.pc = "read", !.args = args, !.patch = r.patch,
                                 !.targetPath = r.targetPath, !.before = file]
         /\ UNCHANGED calls

ApplyPatchCall ==
    /\ made # NotMade
    /\ ap.pc = "idle"
    /\ \E args \in ApplyArgs :
         /\ CallAllowed("apply_patch", args)
         /\ Begins(args, ApplyPatchPrelude(cfg, backendType, configPath, args))
    /\ UNCHANGED <<original, modified, made, file, snapshot, configPath, snapshots,
                 rolled>>
    /\ UNCHANGED <<agentVars, gateVars, parseVars, detectVars, uiVars, chatVars, turnVars>>

\* os.ReadFile(targetPath)
ApRead ==
    /\ ap.pc = "read"
    /\ \/ /\ ap.targetPath = HyprlandConf
          /\ ap' = [ap EXCEPT !.pc = "snapshot", !.originalContent = file]
          /\ UNCHANGED calls
       \/ Aborts("failed to read target file", <<>>)
    /\ UNCHANGED <<original, modified, made, file, snapshot, configPath, snapshots,
                 rolled>>
    /\ UNCHANGED <<agentVars, gateVars, parseVars, detectVars, uiVars, chatVars, turnVars>>

\* The snapshot is taken when ListSources succeeds and there is a service
SnapshotDue == ListSources(configPath).err = "nil" /\ snapshot # "nil"

\* ListSources and CreateSnapshot
ApSnapshot ==
    /\ ap.pc = "snapshot"
    /\ \/ /\ ~SnapshotDue
          /\ ap' = [ap EXCEPT !.pc = "apply"]
          /\ UNCHANGED <<calls, snapshots>>
       \/ /\ SnapshotDue
          /\ snapshots' = Append(snapshots, file)
          /\ ap' = [ap EXCEPT !.pc = "apply", !.snapshotted = TRUE]
          /\ UNCHANGED calls
       \/ /\ SnapshotDue
          /\ Aborts("failed to create snapshot", <<>>)
          /\ UNCHANGED snapshots
    /\ UNCHANGED <<original, modified, made, file, snapshot, configPath, rolled>>
    /\ UNCHANGED <<agentVars, gateVars, parseVars, detectVars, uiVars, chatVars, turnVars>>

\* The loop over the results of PatchApply and the test of failedPatches
Checked(r) ==
    IF FailedPatches(r.results) # {}
    THEN Aborts("patch application failed", r.results)
    ELSE /\ ap' = [ap EXCEPT !.pc = "write", !.newContent = r.text,
                             !.results = r.results]
         /\ UNCHANGED calls

Applied(parsed) ==
    IF parsed.err # "nil" THEN Aborts("failed to parse patch", <<>>)
    ELSE Checked(PatchApply(parsed.patches, ap.originalContent))

\* PatchFromText, PatchApply and the test of the results
ApApply ==
    /\ ap.pc = "apply"
    /\ Applied(PatchFromText(ap.patch))
    /\ UNCHANGED <<original, modified, made, file, snapshot, configPath, snapshots,
                 rolled>>
    /\ UNCHANGED <<agentVars, gateVars, parseVars, detectVars, uiVars, chatVars, turnVars>>

\* os.WriteFile(targetPath, newContent): it writes the content, or fails
\* before or after it has truncated the file
ApWrite ==
    /\ ap.pc = "write"
    /\ \/ /\ file' = ap.newContent
          /\ Returns("apply_patch", ap.args, "nil", ap.before, ap.newContent,
                     ap.snapshotted, TRUE, ap.results)
       \/ /\ UNCHANGED file
          /\ Aborts("failed to write patched file", ap.results)
       \/ /\ file' = <<>>
          /\ Returns("apply_patch", ap.args, "failed to write patched file",
                     ap.before, <<>>, ap.snapshotted, TRUE, ap.results)
    /\ UNCHANGED <<original, modified, made, snapshot, configPath, snapshots, rolled>>
    /\ UNCHANGED <<agentVars, gateVars, parseVars, detectVars, uiVars, chatVars, turnVars>>

\* os.Create and WriteString of NativeBackend.ApplyPatch
BackendWrites(args, r) ==
    IF r.err # "nil"
    THEN /\ Returns("ApplyPatch", args, r.err, file, file, FALSE, FALSE, r.results)
         /\ UNCHANGED file
    ELSE \/ /\ file' = r.newText
            /\ Returns("ApplyPatch", args, "nil", file, r.newText, FALSE, TRUE, r.results)
         \/ /\ UNCHANGED file
            /\ Returns("ApplyPatch", args, "create failed", file, file, FALSE, FALSE,
                       r.results)
         \/ /\ file' = <<>>
            /\ Returns("ApplyPatch", args, "write failed", file, <<>>, FALSE, TRUE,
                       r.results)

\* NativeBackend.ApplyPatch(path, patchText)
NativeApplyPatch ==
    /\ made # NotMade
    /\ ap.pc = "idle"
    /\ calls = <<>>
    /\ \E p \in { <<>>, HyprlandConf }, t \in PatchTexts, readable \in BOOLEAN :
         BackendWrites([path |-> p, patch |-> t],
                       BackendApplyPatch(configPath, p, t, file, readable))
    /\ UNCHANGED <<original, modified, made, snapshot, configPath, snapshots, rolled>>
    /\ UNCHANGED <<agentVars, gateVars, parseVars, detectVars, uiVars, chatVars, turnVars>>

\* The snapshot_id arguments of the calls: none, the id of each snapshot
\* taken, and an id no snapshot has
SnapshotIDs ==
    { NoSnapshotID, SnapshotID(0) } \cup { SnapshotID(n) : n \in 1..Len(snapshots) }

RollbackArgs == { [snapshot_id |-> id] : id \in SnapshotIDs } \cup { BadRollbackArgs }

\* A rollback or restore call returns; the file held before at its start
RolledBack(tool, args, output, err, before, after) ==
    rolled' = Append(rolled, [tool |-> tool, args |-> args, output |-> output,
                              err |-> err, before |-> before, after |-> after])

\* The model calls rollback once a snapshot has been taken
Rollback ==
    /\ ap.pc = "idle"
    /\ snapshots # <<>>
    /\ rolled = <<>>
    /\ \E args \in RollbackArgs :
         RolledBack("rollback", args, RollbackExecute(args).output,
                    RollbackExecute(args).err, file, file)
    /\ UNCHANGED <<original, modified, made, file, snapshot, configPath, snapshots,
                   ap, calls>>
    /\ UNCHANGED <<agentVars, gateVars, parseVars, detectVars, uiVars, chatVars, turnVars>>

\* copyFile(src, target) of Restore: it copies the content, or fails before
\* or after it has truncated the target
Restores(id, r) ==
    IF r.err # "nil"
    THEN /\ RolledBack("Restore", [snapshot_id |-> id], "", r.err, file, file)
         /\ UNCHANGED file
    ELSE \/ /\ file' = r.content
            /\ RolledBack("Restore", [snapshot_id |-> id], "", "nil", file, r.content)
         \/ /\ UNCHANGED file
            /\ RolledBack("Restore", [snapshot_id |-> id], "", "failed to restore",
                          file, file)
         \/ /\ file' = << >>
            /\ RolledBack("Restore", [snapshot_id |-> id], "", "failed to restore",
                          file, << >>)

\* SnapshotService.Restore(id, sources) called on the service itself
RestoreSnapshot ==
    /\ ap.pc = "idle"
    /\ snapshots # <<>>
    /\ rolled = <<>>
    /\ snapshot # "nil"
    /\ \E id \in SnapshotIDs \ { NoSnapshotID } : Restores(id, Restore(snapshots, id))
    /\ UNCHANGED <<original, modified, made, snapshot, configPath, snapshots, ap, calls>>
    /\ UNCHANGED <<agentVars, gateVars, parseVars, detectVars, uiVars, chatVars, turnVars>>

NextPatch ==
    \/ MakePatch
    \/ ApplyPatchCall
    \/ ApRead
    \/ ApSnapshot
    \/ ApApply
    \/ ApWrite
    \/ NativeApplyPatch
    \/ Rollback
    \/ RestoreSnapshot

SpecPatch == InitPatch /\ [][NextPatch]_vars

\* C3: apply-patch is all-or-nothing: if at least one hunk of the patch
\* fails to apply, the call returns an error and the target file's content
\* after the call equals its content before the call; the target is written
\* only after every hunk has succeeded.
C3_AllOrNothing ==
    /\ \A k \in 1..Len(calls) :
         (\E i \in 1..Len(calls[k].results) : ~calls[k].results[i])
            => /\ calls[k].err # "nil"
               /\ calls[k].after = calls[k].before
               /\ ~calls[k].wrote
    /\ \A k \in 1..Len(calls) :
         calls[k].wrote => \A i \in 1..Len(calls[k].results) : calls[k].results[i]
    /\ ap.pc = "write" => \A i \in 1..Len(ap.results) : ap.results[i]

\* An apply_patch call whose first hunk applied and whose second hunk failed
\* has returned the error, with the file as it was
C3_Witness ==
    \E k \in 1..Len(calls) :
        /\ calls[k].tool = "apply_patch"
        /\ \E i \in 1..Len(calls[k].results) : calls[k].results[i]
        /\ \E i \in 1..Len(calls[k].results) : ~calls[k].results[i]
        /\ calls[k].err = "patch application failed"
        /\ calls[k].after = calls[k].before
        /\ calls[k].before # <<>>

\* C5: every apply-patch call that writes the target file has first
\* completed a successful snapshot of all the backend's listed source
\* files; if the snapshot cannot be taken, the call aborts and no file is
\* modified (fail closed).
C5_SnapshotBeforeWrite ==
    /\ ap.pc = "write" => ap.snapshotted
    /\ \A k \in 1..Len(calls) :
         (calls[k].tool = "apply_patch" /\ calls[k].wrote) => calls[k].snapshotted
    /\ \A k \in 1..Len(calls) :
         (calls[k].tool = "apply_patch" /\ ~calls[k].snapshotted)
            => calls[k].after = calls[k].before

\* The errors of a call that come from the file system, the gate or the
\* backend and not from the patch
EnvironmentErrors ==
    { "could not determine target file", "write access denied",
      "failed to read target file", "failed to create snapshot",
      "failed to write patched file" }

\* The first apply_patch call, made with the output of make_patch
AppliesMadePatch(c) ==
    /\ c.tool = "apply_patch"
    /\ made.err = "nil"
    /\ c.args.patch = made.output
    /\ c.err \notin EnvironmentErrors

\* C8: for all texts A and B with A different from B, make-patch(A, B)
\* succeeds and applying its output with apply-patch to a file whose
\* content is A leaves the file with content exactly B.
C8_MadePatchYieldsModified ==
    /\ (original # modified /\ made # NotMade) => made.err = "nil"
    /\ (original # modified /\ calls # <<>> /\ AppliesMadePatch(calls[1]))
          => /\ calls[1].err = "nil"
             /\ file = modified

\* C9: after a patch made from A to B has been applied to a file containing
\* A (the file now contains B), applying the same, now stale, patch a second
\* time fails with a patch-apply conflict and the file still contains B.
C9_StalePatchConflicts ==
    (/\ Len(calls) = 2
     /\ AppliesMadePatch(calls[1])
     /\ calls[1].after = modified
     /\ calls[2].before = modified
     /\ calls[2].err \notin EnvironmentErrors)
        => /\ calls[2].err = "patch application failed"
           /\ calls[2].after = modified

\* The rollback call k named a snapshot that exists
RollsBackTo(k, n) ==
    /\ rolled[k].tool = "rollback"
    /\ rolled[k].args # BadRollbackArgs
    /\ rolled[k].args.snapshot_id = SnapshotID(n)

\* C11: rollback called with the id of an existing snapshot restores that
\* snapshot: after the call the backed-up configuration file has the content
\* it had when the snapshot was taken.
C11_RollbackRestoresSnapshot ==
    \A k \in 1..Len(rolled) : \A n \in 1..Len(snapshots) :
        RollsBackTo(k, n) => rolled[k].after = snapshots[n]

\* C12: apply-patch never writes the target file unless the user confirmed
\* the change for that call: the confirmation callback was consulted and
\* returned true before the write.
C12_NoWriteUnlessConfirmed ==
    [][(ap.pc = "write" /\ file' # file) => ap.confirmed]_vars

-----------------------------------------------------------------------------
\* Detection: main probes the backends at start-up, and the model calls
\* detect_installation_root
InitDetect ==
    /\ AgentIdle
    /\ UIIdle
    /\ ChatIdle
    /\ TurnIdle
    /\ GateIdle
    /\ ParseIdle
    /\ PatchIdle
    /\ layout \in Layouts
    /\ confPaths = [b \in BackendTypes |-> << >>]
    /\ active = SourceNative
    /\ detected = NotDetected
    /\ detectPc = "boot"

\* main: the loop that chooses activeBackend
Startup ==
    /\ detectPc = "boot"
    /\ active' = ActiveBackend(FirstFound(layout, confPaths, 1))
    /\ confPaths' = ProbedPaths(layout, confPaths, FirstFound(layout, confPaths, 1))
    /\ detectPc' = "ready"
    /\ UNCHANGED <<layout, detected>>
    /\ UNCHANGED <<agentVars, gateVars, parseVars, patchVars, uiVars, chatVars, turnVars>>

\* The model calls detect_installation_root
DetectRoot ==
    /\ detectPc = "ready"
    /\ detected' = DetectRootExecute(layout, confPaths, FirstFound(layout, confPaths, 1))
    /\ confPaths' = ProbedPaths(layout, confPaths, FirstFound(layout, confPaths, 1))
    /\ detectPc' = "detected"
    /\ UNCHANGED <<layout, active>>
    /\ UNCHANGED <<agentVars, gateVars, parseVars, patchVars, uiVars, chatVars, turnVars>>

NextDetect ==
    \/ Startup
    \/ DetectRoot

SpecDetect == InitDetect /\ [][NextDetect]_vars

\* The layout satisfies the detector of the HyDE or of the Omarchy variant
SatisfiesSpecific(l) ==
    \/ HyDEDetect(l, << >>).found
    \/ OmarchyDetect(l, << >>).found

\* C13: the variants are probed in a fixed priority order, most specific
\* first, and the first success is returned (unknown when none succeeds): a
\* layout that satisfies the HyDE or the Omarchy detector is never reported
\* as Native, neither by detect-installation-root nor by the choice of the
\* active backend at start-up.
C13_SpecificBeforeNative ==
    /\ (detectPc \in { "ready", "detected" } /\ SatisfiesSpecific(layout))
          => active # SourceNative
    /\ (detectPc = "detected" /\ SatisfiesSpecific(layout))
          => detected.type # SourceNative
    /\ (detectPc = "detected" /\ detected.type = "unknown")
          => \A b \in BackendTypes : ~Detect(b, layout, << >>).found

\* The configuration root holds hyprland.conf and no marker of HyDE
NativeLayout(l) ==
    /\ l.home
    /\ l.hyprlandConf = "ok"
    /\ ~l.env
    /\ IsNotExist(l.hydeConf)
    /\ IsNotExist(l.Configs)
    /\ IsNotExist(l.scripts)

\* C14: when the configuration root contains hyprland.conf and no HyDE
\* marker, detect-installation-root returns the Native variant with exactly
\* one source file, the full path of hyprland.conf.
C14_NativeWithOneSource ==
    (detectPc = "detected" /\ NativeLayout(layout))
        => detected = [type |-> SourceNative, sources |-> << HyprlandConf >>]

\* detect_installation_root has answered for a root with hyprland.conf and
\* no HyDE marker
C14_Witness ==
    /\ detectPc = "detected"
    /\ NativeLayout(layout)
    /\ detected.type = SourceNative
    /\ Len(detected.sources) = 1

-----------------------------------------------------------------------------
\* The tool call tc fails: its tool is not registered, or Execute returns
\* an error
CallFails(tc) ==
    \/ ~RegistryGet(tc.name)
    \/ ToolExecute(tc.name, tc.args).err # "nil"

\* The text of the failure of tc
FailureText(tc) ==
    IF ~RegistryGet(tc.name) THEN "Error: Tool " \o tc.name \o " not found"
    ELSE "Error: " \o ToolExecute(tc.name, tc.args).err

\* C15: no failure of a tool makes ProcessMessage return an error: the text
\* of the failure becomes the content of that call's tool-role result, and
\* from the execution of the tool calls the loop goes on to the next
\* provider call.
C15_ToolFailureIsAResult ==
    /\ [](\A p \in AnsweredTurns : \A j \in 1..Len(CallsAt(history, p)) :
            CallFails(CallsAt(history, p)[j])
               => /\ history[p + j].role = RoleTool
                  /\ history[p + j].content = FailureText(CallsAt(history, p)[j]))
    /\ [][pc = "fanout" => (pc' \in { "fanout", "chat" } /\ ret' = ret)]_vars

\* A turn with a failed tool call was followed by a provider call that gave
\* the final answer
C15_Witness ==
    /\ pc = "returned"
    /\ ret = [text |-> "final answer", err |-> "nil"]
    /\ chatCalls >= 2
    /\ \E p \in AnsweredTurns : \E j \in 1..Len(CallsAt(history, p)) :
          /\ CallFails(CallsAt(history, p)[j])
          /\ history[p + j].content = "Error: access denied"

\* C16: when every turn up to the limit ends with tool calls, ProcessMessage
\* makes no further provider call and returns the fixed loop-limit text with
\* no error; the Agent then processes further messages.
C16_LoopLimitTextNoError ==
    /\ [][(pc = "chat" /\ turn >= maxTurns /\ pc' # pc)
            => /\ pc' = "returned"
               /\ ret' = [text |-> LoopLimitText, err |-> "nil"]
               /\ chatCalls' = chatCalls
               /\ history' = history]_vars
    /\ [][(pc = "returned" /\ pc' = "chat")
            => /\ ret.text = LoopLimitText
               /\ Len(history') = Len(history) + 1
               /\ history'[Len(history')].role = RoleUser
               /\ chatCalls' = 0]_vars

\* After the loop-limit text, a second message got its final answer
C16_Witness ==
    /\ UserMessages(history) = 2
    /\ pc = "returned"
    /\ ret = [text |-> "final answer", err |-> "nil"]
    /\ Len(history) > maxTurns

\* C17: within a turn, no tool result is appended to History and no further
\* provider call is made until every tool call of that turn has finished.
C17_FanInBarrier ==
    [][(pc = "fanout" /\ running # {})
         => /\ history' = history
            /\ chatCalls' = chatCalls
            /\ pc' = "fanout"]_vars

\* One call of the turn has finished and another is still running
C17_Witness ==
    /\ pc = "fanout"
    /\ running # {}
    /\ \E k \in 1..Len(results) : results[k] # Null

\* C18: when the caller cancels or the deadline passes while tool calls are
\* executing, the executions in flight are not interrupted and run to
\* completion, and their results are discarded: they are not appended to
\* History.
C18_InFlightResultsDiscarded ==
    /\ (cancelledInFlight /\ pc # "fanout")
          => \A k \in 1..Len(results) : results[k] # Null
    /\ (cancelledInFlight /\ pc # "fanout")
          => history[Len(history)].role # RoleTool

\* C19: the turn limit is the configured max_turns: with max_turns N, one
\* ProcessMessage call makes at most N provider calls.
C19_AtMostConfiguredTurns ==
    chatCalls <= agentMaxTurns

\* C20: when a provider call fails, ProcessMessage returns an error at once:
\* the timeout error if the deadline was exceeded, the cancellation error if
\* the caller cancelled, and the provider's own error otherwise; no further
\* provider call is made and no tool is executed.
C20_ChatErrorReturnsAtOnce ==
    /\ []((pc = "returned" /\ ret.err # "nil")
            => /\ ret.text = ""
               /\ ctx = "deadline" => ret.err = "timeout"
               /\ ctx = "cancelled" => ret.err = "cancelled"
               /\ ctx = "live" => ret.err = "provider error"
               /\ running = {})
    /\ [][(pc = "returned" /\ ret.err # "nil")
            => UNCHANGED <<chatCalls, history, results, running>>]_vars

\* The deadline passed during the second provider call, which failed
C20_Witness ==
    /\ pc = "returned"
    /\ ctx = "deadline"
    /\ ret = [text |-> "", err |-> "timeout"]
    /\ chatCalls = 2

-----------------------------------------------------------------------------
\* C21: when ProcessMessage aborts with a timeout or a cancellation, History
\* equals what it was when the failing provider call was issued: nothing is
\* appended for the failed turn and everything appended before it is kept.
C21_AbortKeepsHistory ==
    [][(pc = "chat" /\ pc' = "returned" /\ ret'.err \in { "timeout", "cancelled" })
         => history' = history]_vars

\* The call was cancelled during its second turn and returned the error;
\* the first turn's response and results are in History
C21_Witness ==
    /\ pc = "returned"
    /\ ret.err = "cancelled"
    /\ chatCalls = 2
    /\ history[Len(history)].role = RoleTool

\* The positions of h that hold a system message
SystemMessages(h) == { p \in 1..Len(h) : h[p].role = RoleSystem }

\* C22: with a non-empty system prompt, in any History built by ProcessMessage
\* calls without Reset the system prompt occurs exactly once and is the first
\* message; second and later calls do not add it again.
C22_SystemPromptOnceFirst ==
    (SystemPrompt # "" /\ history # <<>>)
        => /\ SystemMessages(history) = { 1 }
           /\ history[1].content = SystemPrompt

\* The second ProcessMessage call of a session is running
C22_Witness ==
    /\ UserMessages(history) = 2
    /\ pc = "chat"
    /\ chatCalls = 0

\* C23: when a provider response carries no tool calls, that response is
\* appended to History as its last message and ProcessMessage returns its
\* text with no error, without any further provider call.
C23_FinalResponseReturned ==
    /\ []((pc = "returned" /\ ret.err = "nil" /\ ret.text # LoopLimitText)
            => /\ history[Len(history)].role = RoleAssistant
               /\ history[Len(history)].toolCalls = <<>>
               /\ history[Len(history)].content = ret.text)
    /\ [][(pc = "chat" /\ Len(history') = Len(history) + 1
              /\ history'[Len(history')].role = RoleAssistant
              /\ history'[Len(history')].toolCalls = <<>>)
            => /\ pc' = "returned"
               /\ ret' = [text |-> history'[Len(history')].content, err |-> "nil"]
               /\ chatCalls' = chatCalls + 1]_vars
    /\ [][(pc = "returned" /\ pc' = "returned") => chatCalls' = chatCalls]_vars

\* The second provider call answered without tool calls
C23_Witness ==
    /\ pc = "returned"
    /\ ret = [text |-> "final answer", err |-> "nil"]
    /\ chatCalls = 2
    /\ history[Len(history)].content = "final answer"

\* C24: a tool call that names a capability that is not in the registry
\* gets a tool-role result with the call's id and the text "Error: Tool
\* <name> not found"; the other calls of the turn are executed and the turn
\* goes on.
C24_UnknownToolIsAResult ==
    \A p \in AnsweredTurns : \A j \in 1..Len(CallsAt(history, p)) :
        /\ CallsAt(history, p)[j].name \notin RegisteredTools
              => history[p + j] =
                    [role |-> RoleTool,
                     content |-> "Error: Tool " \o CallsAt(history, p)[j].name
                                    \o " not found",
                     name |-> CallsAt(history, p)[j].name,
                     toolCalls |-> <<>>,
                     toolCallID |-> CallsAt(history, p)[j].id]
        /\ CallsAt(history, p)[j].name \in RegisteredTools
              => /\ history[p + j].role = RoleTool
                 /\ history[p + j].content \in
                       { "content of " \o CallsAt(history, p)[j].args,
                         "Error: access denied" }

\* The results of a turn with an unregistered tool and a registered one were
\* appended and the next provider call is due
C24_Witness ==
    /\ pc = "chat"
    /\ \E p \in AnsweredTurns : \E i, j \in 1..Len(CallsAt(history, p)) :
          /\ CallsAt(history, p)[i].name \notin RegisteredTools
          /\ history[p + i].toolCallID = "call_" \o ToString(i)
          /\ history[p + j].content = "content of hyprland.conf"

-----------------------------------------------------------------------------
\* The turns of a call whose responses all carried the tool calls tcs
RECURSIVE TurnsOf(_, _)
TurnsOf(tcs, n) ==
    IF n = 0 THEN <<>>
    ELSE TurnsOf(tcs, n - 1)
            \o << [role |-> RoleAssistant, content |-> "", name |-> "",
                   toolCalls |-> tcs, toolCallID |-> ""] >>
            \o [k \in 1..Len(tcs) |-> ToolResult(tcs[k])]

\* The History of a first call that went through n turns and returned r,
\* as the provider's answers alone determine it
HistoryOf(tcs, n, r) ==
    << [role |-> RoleSystem, content |-> SystemPrompt, name |-> "",
        toolCalls |-> <<>>, toolCallID |-> ""],
       [role |-> RoleUser, content |-> "input", name |-> "",
        toolCalls |-> <<>>, toolCallID |-> ""] >>
        \o TurnsOf(tcs, n)
        \o (IF r.err = "nil" /\ r.text # LoopLimitText
            THEN << [role |-> RoleAssistant, content |-> r.text, name |-> "",
                     toolCalls |-> <<>>, toolCallID |-> ""] >>
            ELSE <<>>)

C26_OneCallInFlight ==
    /\ [](~overlapped)
    /\ [](uiState = "Ready" => ~InFlight)
    /\ [][(pc = "fanout" /\ running' # running) => history' = history]_vars

\* The UI is back in Ready after a call and starts the next one
C26_Witness ==
    /\ uiState = "Thinking"
    /\ UserMessages(history) = 2
    /\ InFlight
    /\ ~overlapped

-----------------------------------------------------------------------------
\* The apply_patch calls that have returned
ApplyPatchCalls == { i \in 1..Len(calls) : calls[i].tool = "apply_patch" }

\* The call that returned last
LastCall == calls[Len(calls)]

\* The call left the file alone and took no snapshot
NoEffect(call) ==
    /\ ~call.snapshotted
    /\ ~call.wrote
    /\ call.after = call.before

\* The patch argument has no hunk marker after the cleanup
Unmarked(args) ==
    /\ args # BadArgs
    /\ ~Contains(CleanPatch(args.patch), HunkMark)

\* C27: a patch whose sanitized text contains no hunk marker '@@' is
\* rejected as malformed before any path resolution, snapshot, patch
\* application or file write takes place: no snapshot is created and no file
\* changes.
C27_UnmarkedPatchRejectedFirst ==
    /\ [][(ap.pc = "idle" /\ ap'.pc # "idle") => ~Unmarked(ap'.args)]_vars
    /\ [][(ap.pc = "idle" /\ ap'.pc = "idle" /\ Len(calls') > Len(calls)
            /\ LastCall'.tool = "apply_patch" /\ Unmarked(LastCall'.args))
          => /\ LastCall'.err = "invalid patch format"
             /\ NoEffect(LastCall')
             /\ UNCHANGED <<file, snapshots>>]_vars

\* A patch without a hunk marker for a path the gate denies, and one for no
\* path when no source is known, were rejected as malformed
C27_Witness ==
    \E i \in ApplyPatchCalls :
        /\ Unmarked(calls[i].args)
        /\ \/ calls[i].args.path = EtcPasswd
           \/ calls[i].args.path = <<>> /\ configPath = <<>>
        /\ calls[i].err = "invalid patch format"

\* The target path of a call and the gate's answer for it
ResolvedTarget(args) == TargetOf(args.path, ListSources(configPath))

Authorized(path) ==
    LET g == IsPathAllowed(cfg, backendType, path)
    IN  g.err = "nil" /\ g.allowed

\* C28: apply-patch authorizes the resolved target path (the explicit path,
\* or the backend's primary source when none is given) through the Security
\* Gate before it reads the target, takes a snapshot or writes; when the
\* gate denies, no snapshot is created and no file is changed.
C28_GateBeforeEffects ==
    /\ [][(ap.pc = "idle" /\ ap'.pc # "idle") => Authorized(ap'.targetPath)]_vars
    /\ [](ap.pc # "idle" => ap.targetPath = ResolvedTarget(ap.args).path)
    /\ [](\A i \in ApplyPatchCalls :
            calls[i].err = "write access denied" => NoEffect(calls[i]))

\* A call with the patch that make_patch returned, for a path outside the
\* root, was denied
C28_Witness ==
    \E i \in ApplyPatchCalls :
        /\ calls[i].args.path = EtcPasswd
        /\ calls[i].args.patch = made.output
        /\ calls[i].err = "write access denied"

\* C29: when a valid patch is wrapped by the model in code-fence marker
\* lines and/or conversational filler lines, the cleanup removes only the
\* fence markers and filler lines and keeps the patch text between them, so
\* the wrapped patch is validated and applied exactly like the bare patch.
C29_WrappedLikeBare ==
    /\ made.err = "nil"
          => CleanPatch(Wrapped(made.output)) = CleanPatch(made.output)
    /\ \A i \in ApplyPatchCalls :
          (calls[i].args # BadArgs /\ calls[i].args.patch = WrappedPatch)
             => calls[i].err # "invalid patch format"

-----------------------------------------------------------------------------
\* The classification rules in their order, on a line without the white
\* space around it, and the type each rule gives
RuleTypes ==
    << LineTypeEmpty, LineTypeComment, LineTypeVariable, LineTypeSectionStart,
       LineTypeSectionEnd, LineTypeKeyValue, LineTypeUnknown >>

RuleMatches(k, t) ==
    CASE k = 1 -> t = <<>>
      [] k = 2 -> t # <<>> /\ t[1] = "#"
      [] k = 3 -> t # <<>> /\ t[1] = "$"
      [] k = 4 -> t # <<>> /\ t[Len(t)] = "{"
      [] k = 5 -> t = << "}" >>
      [] k = 6 -> \E i \in 1..Len(t) : t[i] = "="
      [] k = 7 -> TRUE

FirstRule(t) ==
    CHOOSE k \in 1..Len(RuleTypes) :
        RuleMatches(k, t) /\ \A j \in 1..(k - 1) : ~RuleMatches(j, t)

\* key and value are the two sides of the first "=" of t
SplitAtFirst(t, key, value) ==
    \E i \in 1..Len(t) :
        /\ t[i] = "="
        /\ \A j \in 1..(i - 1) : t[j] # "="
        /\ key = TrimSpace(SubSeq(t, 1, i - 1))
        /\ value = TrimSpace(SubSeq(t, i + 1, Len(t)))

\* The line is classified by the first rule that matches, with the key and
\* the value of that rule
ClassifiedInOrder(line) ==
    LET t == TrimSpace(line.Raw)
    IN  /\ line.Type = RuleTypes[FirstRule(t)]
        /\ line.Type = LineTypeKeyValue => SplitAtFirst(t, line.Key, line.Value)
        /\ (line.Type = LineTypeVariable /\ RuleMatches(6, t))
              => SplitAtFirst(t, line.Key, line.Value)
        /\ line.Type = LineTypeSectionStart
              => line.Key = TrimSpace(SubSeq(t, 1, Len(t) - 1))

\* C30: Parse classifies every line into exactly one type by the first
\* matching rule in this order: blank -> empty; starts with '#' -> comment;
\* starts with '$' -> variable (key and value split at the first '=');
\* ends with '{' -> section-start (key is the section name); equals '}' ->
\* section-end; contains '=' -> key-value (split at the first '=');
\* otherwise unknown. Line numbers are 1, 2, 3, ... in file order and each
\* line's raw text is stored unchanged.
C30_ClassifiedByFirstRule ==
    parsePc \in { "parsed", "serialized" }
        => /\ Len(ir) = Len(ScanLines(fileText))
           /\ \A i \in 1..Len(ir) :
                /\ ir[i].LineNum = i
                /\ ir[i].Raw = ScanLines(fileText)[i]
                /\ ClassifiedInOrder(ir[i])

\* A line that three rules match is a variable, split at its first "="
C30_Witness ==
    /\ parsePc = "parsed"
    /\ \E i \in 1..Len(ir) :
         /\ ir[i].Raw = << "$", "=", "=" >>
         /\ ir[i].Type = LineTypeVariable
         /\ ir[i].Key = << "$" >>
         /\ ir[i].Value = << "=" >>

-----------------------------------------------------------------------------
\* The elements of a location below the configuration root
BelowRoot(loc) == SubSeq(loc, Len(ElemsOf(ConfigRoot)) + 1, Len(loc))

\* The root-relative path or the basename of the location is the entry
NamesFile(loc, allowedFile) ==
    \/ BelowRoot(loc) = SplitSep(allowedFile)
    \/ loc # <<>> /\ loc[Len(loc)] = allowedFile

\* The location is the directory or nested under it
NestedUnder(loc, dir) ==
    Len(loc) >= Len(dir) /\ SubSeq(loc, 1, Len(dir)) = dir

\* The lists of the variant admit the location
ListsAdmit(sec, loc) ==
    \/ \E i \in 1..Len(sec.AllowedFiles) : NamesFile(loc, sec.AllowedFiles[i])
    \/ \E i \in 1..Len(sec.AllowedDirs) : NestedUnder(loc, Location(sec.AllowedDirs[i]))

\* C31: for a path inside the configuration root, IsPathAllowed allows
\* exactly when the root-relative path or its basename equals an entry of
\* the variant's allowed-files list, or the normalized path equals or is
\* nested under one of the variant's allowed directories; in every other
\* case it denies with the reason that the path is not in the allowed list
\* of the variant.
C31_AllowedExactlyByLists ==
    (toolPc = "done" /\ gate # NoGate /\ ~OutsideRoot(argPath))
        => /\ gate.allowed <=> ListsAdmit(Security(cfg)[backendType], Location(argPath))
           /\ gate.allowed => gate.err = "nil"
           /\ ~gate.allowed => gate.err = "not in the allowed list"

\* Under the narrowed lists a path inside the root was denied, and it is
\* neither the scripts directory nor the main configuration file
C31_Witness ==
    /\ toolPc = "done"
    /\ cfg = "custom"
    /\ ~OutsideRoot(argPath)
    /\ Len(Location(argPath)) > Len(ElemsOf(ConfigRoot))
    /\ gate.err = "not in the allowed list"
    /\ fsLog = <<>>

-----------------------------------------------------------------------------
\* OpenAIProvider.Chat: the retry loop around client.CreateChatCompletion

\* const maxRetries
maxRetries == 3

\* The errors the transport returns while the context is live
TransportErrors == { "status 429", "status 500", "connection reset" }

\* time.Duration(1<<attempt) * time.Second
RECURSIVE Backoff(_)
Backoff(attempt) == IF attempt = 0 THEN 1 ELSE 2 * Backoff(attempt - 1)

\* The test of for attempt := 0; attempt < maxRetries; attempt++
Retries(attempt) == attempt < maxRetries

InitChat ==
    /\ AgentIdle
    /\ GateIdle
    /\ ParseIdle
    /\ PatchIdle
    /\ DetectIdle
    /\ UIIdle
    /\ TurnIdle
    /\ oa = [pc |-> "loop", attempt |-> 0, ctx |-> "live", sleep |-> 0,
             attempts |-> 0, failures |-> 0, late |-> FALSE,
             lastErr |-> "nil", err |-> "none"]

\* client.CreateChatCompletion(ctx, req) is called; late records a call
\* after the first that is made when ctx.Err() is already set
Attempt(o) ==
    [o EXCEPT !.pc = "call", !.attempts = @ + 1,
              !.late = @ \/ (o.ctx # "live" /\ o.attempts > 0)]

\* The loop test and the start of the body: the backoff sleep after the
\* first attempt, or the return after the last
OaLoop ==
    /\ oa.pc = "loop"
    /\ oa' = IF ~Retries(oa.attempt)
             THEN [oa EXCEPT !.pc = "returned", !.err = "failed after attempts"]
             ELSE IF oa.attempt > 0
             THEN [oa EXCEPT !.pc = "sleep", !.sleep = Backoff(oa.attempt)]
             ELSE Attempt(oa)
    /\ UNCHANGED <<agentVars, gateVars, parseVars, patchVars, detectVars, uiVars, turnVars>>

\* A second of time.Sleep passes; after the last one the request is built
\* and sent
OaSleep ==
    /\ oa.pc = "sleep"
    /\ oa' = IF oa.sleep > 1 THEN [oa EXCEPT !.sleep = @ - 1]
             ELSE Attempt([oa EXCEPT !.sleep = 0])
    /\ UNCHANGED <<agentVars, gateVars, parseVars, patchVars, detectVars, uiVars, turnVars>>

\* The transport returns a response
OaResponse ==
    /\ oa.pc = "call"
    /\ oa.ctx = "live"
    /\ oa' = [oa EXCEPT !.pc = "returned", !.err = "nil"]
    /\ UNCHANGED <<agentVars, gateVars, parseVars, patchVars, detectVars, uiVars, turnVars>>

\* The transport returns an error: Chat returns when ctx.Err() is set and
\* goes on to the next attempt otherwise
OaError ==
    /\ oa.pc = "call"
    /\ \E e \in TransportErrors \cup { "context" } :
         /\ e = "context" <=> oa.ctx # "live"
         /\ oa' = IF oa.ctx # "live"
                  THEN [oa EXCEPT !.pc = "returned", !.failures = @ + 1,
                                  !.lastErr = e, !.err = "context"]
                  ELSE [oa EXCEPT !.pc = "loop", !.failures = @ + 1,
                                  !.lastErr = e, !.attempt = @ + 1]
    /\ UNCHANGED <<agentVars, gateVars, parseVars, patchVars, detectVars, uiVars, turnVars>>

\* The caller cancels the context or its deadline passes
OaCtxDone ==
    /\ oa.pc # "returned"
    /\ oa.ctx = "live"
    /\ \E c \in { "deadline", "cancelled" } : oa' = [oa EXCEPT !.ctx = c]
    /\ UNCHANGED <<agentVars, gateVars, parseVars, patchVars, detectVars, uiVars, turnVars>>

NextChat ==
    \/ OaLoop
    \/ OaSleep
    \/ OaResponse
    \/ OaError
    \/ OaCtxDone

SpecChat == InitChat /\ [][NextChat]_vars

\* C33: one Chat call of the OpenAI adapter makes at most 3 transport
\* attempts and retries only after a failed attempt; cancellation and
\* deadline expiry are terminal: once the context is cancelled or expired no
\* further transport attempt is made and Chat returns an error.
C33_RetriesStopAtCancellation ==
    /\ oa.attempts <= maxRetries
    /\ oa.attempts <= oa.failures + 1
    /\ ~oa.late
    /\ (oa.pc = "returned" /\ oa.ctx # "live") => oa.err # "nil"

-----------------------------------------------------------------------------
\* The tool calls of one turn run as goroutines: two apply_patch calls, each
\* with its own patch against the content the model has read, and the
\* snapshot service they share

\* The seconds time.Now() goes through during the turn
MaxClock == 1

\* The main configuration file and another file the gate allows
CoMain == HyprlandConf
CoOther == Join2(ConfigRoot, Conf(<<"keybindings">>))
CoFiles == { CoMain, CoOther }

\* The content the model has read, and the text each call wants
CoOriginal == << "a" >>
CoModified(p) == IF p = 1 THEN << "x", "a" >> ELSE << "a", "y" >>

\* The character a call's patch inserts
CoMark(p) == IF p = 1 THEN "x" ELSE "y"

\* The arguments of call p: the output of make_patch, for a path
CoArgs(p, path) ==
    [path |-> path, patch |-> MakePatchExecute(CoOriginal, CoModified(p)).output]

Procs == { 1, 2 }

\* A file of a snapshot directory: absent, or present with its content
NoFile == <<>>
Stored(content) == << content >>

\* A lock that keeps a call from reading while another call is between its
\* read and its write
MayReadExclusively(c, p) ==
    \A q \in DOMAIN c : q # p => c[q].pc \in { "start", "read", "done" }

\* No lock guards the file: a call may read whatever the other call is doing
MayRead(c, p) == TRUE

NotBegun ==
    [pc |-> "start", path |-> <<>>, target |-> <<>>, patch |-> <<>>, orig |-> <<>>,
     before |-> <<>>, new |-> <<>>, id |-> 0, snap |-> FALSE, saved |-> <<>>,
     err |-> "none"]

InitTurn ==
    /\ AgentIdle
    /\ GateIdle
    /\ ParseIdle
    /\ PatchIdle
    /\ DetectIdle
    /\ UIIdle
    /\ ChatIdle
    /\ clock = 0
    /\ disk \in [CoFiles -> { CoOriginal }]
    /\ backups = [id \in 0..MaxClock |->
                    [exists |-> FALSE, files |-> [f \in CoFiles |-> NoFile]]]
    /\ co = [p \in Procs |-> NotBegun]

\* ApplyPatchTool.Execute up to os.ReadFile
CoBegin(p) ==
    /\ co[p].pc = "start"
    /\ \E path \in { <<>> } \cup CoFiles :
         LET r == ApplyPatchPrelude(cfg, backendType, CoMain, CoArgs(p, path))
         IN  co' = [co EXCEPT ![p] =
                      IF r.err # "nil" THEN [@ EXCEPT !.pc = "done", !.path = path, !.err = r.err]
                      ELSE [@ EXCEPT !.pc = "read", !.path = path,
                                     !.target = r.targetPath, !.patch = r.patch]]
    /\ UNCHANGED <<clock, disk, backups>>
    /\ UNCHANGED <<agentVars, gateVars, parseVars, patchVars, detectVars, uiVars, chatVars>>

\* os.ReadFile(targetPath)
CoRead(p) ==
    /\ co[p].pc = "read"
    /\ MayRead(co, p)
    /\ co' = [co EXCEPT ![p].pc = "mkdir", ![p].orig = disk[co[p].target]]
    /\ UNCHANGED <<clock, disk, backups>>
    /\ UNCHANGED <<agentVars, gateVars, parseVars, patchVars, detectVars, uiVars, chatVars>>

\* CreateSnapshot: the id is the current second; os.MkdirAll
CoMkdir(p) ==
    /\ co[p].pc = "mkdir"
    /\ co' = [co EXCEPT ![p].pc = "create", ![p].id = clock]
    /\ backups' = [backups EXCEPT ![clock].exists = TRUE]
    /\ UNCHANGED <<clock, disk>>
    /\ UNCHANGED <<agentVars, gateVars, parseVars, patchVars, detectVars, uiVars, chatVars>>

\* copyFile: os.Open(src) and os.Create(dst), which truncates dst
CoCreate(p) ==
    /\ co[p].pc = "create"
    /\ co' = [co EXCEPT ![p].pc = "copy"]
    /\ backups' = [backups EXCEPT ![co[p].id].files[CoMain] = Stored(<<>>)]
    /\ UNCHANGED <<clock, disk>>
    /\ UNCHANGED <<agentVars, gateVars, parseVars, patchVars, detectVars, uiVars, chatVars>>

\* copyFile: io.Copy; CreateSnapshot returns the id
CoCopy(p) ==
    /\ co[p].pc = "copy"
    /\ co' = [co EXCEPT ![p].pc = "apply", ![p].snap = TRUE,
                        ![p].saved = disk[CoMain]]
    /\ backups' = [backups EXCEPT ![co[p].id].files[CoMain] = Stored(disk[CoMain])]
    /\ UNCHANGED <<clock, disk>>
    /\ UNCHANGED <<agentVars, gateVars, parseVars, patchVars, detectVars, uiVars, chatVars>>

\* PatchFromText, PatchApply and the test of the results
CoApplied(p, parsed) ==
    IF parsed.err # "nil" THEN [co[p] EXCEPT !.pc = "done", !.err = "failed to parse patch"]
    ELSE LET r == PatchApply(parsed.patches, co[p].orig)
         IN  IF FailedPatches(r.results) # {}
             THEN [co[p] EXCEPT !.pc = "done", !.err = "patch application failed"]
             ELSE [co[p] EXCEPT !.pc = "write", !.new = r.text]

CoApply(p) ==
    /\ co[p].pc = "apply"
    /\ co' = [co EXCEPT ![p] = CoApplied(p, PatchFromText(co[p].patch))]
    /\ UNCHANGED <<clock, disk, backups>>
    /\ UNCHANGED <<agentVars, gateVars, parseVars, patchVars, detectVars, uiVars, chatVars>>

\* os.WriteFile(targetPath, newContent)
CoWrite(p) ==
    /\ co[p].pc = "write"
    /\ disk' = [disk EXCEPT ![co[p].target] = co[p].new]
    /\ co' = [co EXCEPT ![p].pc = "done", ![p].before = disk[co[p].target],
                        ![p].err = "nil"]
    /\ UNCHANGED <<clock, backups>>
    /\ UNCHANGED <<agentVars, gateVars, parseVars, patchVars, detectVars, uiVars, chatVars>>

\* A second passes
Tick ==
    /\ clock < MaxClock
    /\ clock' = clock + 1
    /\ UNCHANGED <<disk, backups, co>>
    /\ UNCHANGED <<agentVars, gateVars, parseVars, patchVars, detectVars, uiVars, chatVars>>

NextTurn ==
    \/ \E p \in Procs : CoBegin(p)
    \/ \E p \in Procs : CoRead(p)
    \/ \E p \in Procs : CoMkdir(p)
    \/ \E p \in Procs : CoCreate(p)
    \/ \E p \in Procs : CoCopy(p)
    \/ \E p \in Procs : CoApply(p)
    \/ \E p \in Procs : CoWrite(p)
    \/ Tick

SpecTurn == InitTurn /\ [][NextTurn]_vars

\* CreateSnapshot of call p has returned its id
SnapshotTaken(p) == co[p].snap

\* C32: the Snapshot Service is append-only and safe for concurrent use: a
\* CreateSnapshot call never changes the files stored by an earlier or
\* concurrent snapshot, and every successful call returns an id whose
\* directory holds exactly the files passed to that call with their content
\* at the time of the call.
C32_SnapshotsAppendOnly ==
    \A p \in Procs :
        SnapshotTaken(p) => backups[co[p].id].files[CoMain] = Stored(co[p].saved)

\* Both calls have returned success for the same target
BothSucceeded ==
    /\ \A p \in Procs : co[p].pc = "done" /\ co[p].err = "nil"
    /\ co[1].target = co[2].target

\* The content carries the insertion of call p
HasEffect(content, p) == ContainsChar(content, CoMark(p))

\* C34: two apply-patch calls issued in the same turn for the same file are
\* not mutually excluded: a call can read the file whatever step the other
\* call is at, and when both have read the same content both report success
\* while the final file content contains the effect of only one of the two
\* patches.
C34_NoMutualExclusion ==
    /\ \A p \in Procs : co[p].pc = "read" => ENABLED CoRead(p)
    /\ (BothSucceeded /\ co[1].orig = co[2].orig)
          => /\ disk[co[1].target] \in { co[1].new, co[2].new }
             /\ ~(HasEffect(disk[co[1].target], 1) /\ HasEffect(disk[co[1].target], 2))

\* Both calls reported success for the main configuration file and the
\* insertion of the first call is lost
C34_Witness ==
    /\ BothSucceeded
    /\ co[1].target = CoMain
    /\ HasEffect(disk[CoMain], 2)
    /\ ~HasEffect(disk[CoMain], 1)

\* C37: whenever apply-patch overwrites a target file, the snapshot taken by
\* that call contains a copy of that target file's pre-write content, also
\* when the target is given by an explicit path that differs from the
\* backend's primary source. (Stated for a call that runs alone.)
C37_SnapshotHoldsTarget ==
    \A p \in Procs :
        (co[p].pc = "done" /\ co[p].err = "nil" /\ \A q \in Procs \ { p } : co[q].pc = "start")
            => /\ SnapshotTaken(p)
               /\ backups[co[p].id].files[co[p].target] = Stored(co[p].before)

-----------------------------------------------------------------------------
\* The messages of h from position p + 1 on that have the tool role, up to
\* the first that has not
RECURSIVE ToolRun(_, _)
ToolRun(h, p) ==
    IF p + 1 <= Len(h) /\ h[p + 1].role = RoleTool THEN 1 + ToolRun(h, p + 1) ELSE 0

-----------------------------------------------------------------------------
\* The directories the program may have been started in
WorkingDirs == { ConfigRoot, Home }

\* The location the operating system opens for a path: a relative path is
\* resolved against the working directory of the process
Opened(cwd, path) ==
    IF IsAbs(path) THEN ElemsOf(path) ELSE ElemsOf(cwd \o << Sep >> \o path)

\* The location IsPathAllowed tests: a relative path is joined to the
\* configuration root
Authorised(path) == ElemsOf(AbsTarget(ConfigRoot, path))

\* C36: the file or directory that read-file and list-dir actually open is
\* the same normalized path that the Security Gate authorized for that
\* call; this holds in particular for a relative path argument, which the
\* gate resolves against the configuration root.
C36_OpensWhatWasAuthorized ==
    (toolPc = "done" /\ fsLog # <<>> /\ argPath # <<>>)
        => \A cwd \in WorkingDirs : Opened(cwd, fsLog[1]) = Authorised(argPath)

-----------------------------------------------------------------------------
\* C39: every provider adapter accepts every History the orchestrator can
\* pass to it: whenever ProcessMessage is about to call provider.Chat, also
\* with a History that ends with the tool-role results of the previous
\* turn, the adapter sends a request to its transport and does not reject
\* the History itself (GeminiProvider included).
C39_AdaptersAcceptHistory ==
    (pc = "chat" /\ LoopContinues(turn)) => AdapterSends(adapter, history)

-----------------------------------------------------------------------------
\* C38: the clean-up of apply-patch leaves every patch text produced by
\* make-patch unchanged up to leading and trailing white space: no line of
\* a hunk is removed.
C38_CleanupKeepsMadePatch ==
    (made # NotMade /\ made.err = "nil")
        => CleanPatch(made.output) = TrimSpace(made.output)

-----------------------------------------------------------------------------
\* C40: whenever a backend's Detect has reported success, the primary
\* configuration path it set (the single entry ListSources then returns)
\* names a file that existed at detection time; this holds for the HyDE,
\* the Native and the Omarchy variant.
C40_DetectedPathExists ==
    \A b \in BackendTypes :
        confPaths[b] # << >>
            => /\ ListSources(confPaths[b]).sources = << HyprlandConf >>
               /\ ~IsNotExist(layout.hyprlandConf)

====
